---- MODULE Spec2Model ----
(***************************************************************************)
(* The client-side chart-data pipeline of the trading dashboard:           *)
(*   - CompetitorChart's accumulate effect (accumulatedBalances and        *)
(*     lastSeenTimestamps, fed by the latest-balance poll);                *)
(*   - useChartData (sort, global time range, leading pad, live merge,     *)
(*     trailing pad, symmetric Y range);                                   *)
(*   - the display stage: transformCurvesByMode, the chart dimensions and  *)
(*     calculateYAxisTicksFromCurves.                                      *)
(*                                                                         *)
(* A timestamp is an ISO-8601 string.  It is modelled as a record          *)
(* [t |-> instant, iso |-> whether the string is the canonical             *)
(* toISOString() form]: two strings may name the same instant, the code    *)
(* compares strings in one place (!==) and instants in the others          *)
(* (new Date(s).getTime()).                                                *)
(*                                                                         *)
(* Y values of the scale range are kept in hundredths (minY100, maxY100),  *)
(* so that the factor 1.15 stays an integer (115).                         *)
(*                                                                         *)
(* In the display stage a JavaScript number is a record [n, d]: the exact  *)
(* fraction n/d in lowest terms with d > 0, or Infinity (1/0), -Infinity   *)
(* (-1/0), NaN (0/0).  Arithmetic is exact where the code's is rounded to  *)
(* a double; division by zero, Infinity and NaN behave as in IEEE 754.     *)
(***************************************************************************)
EXTENDS Integers, Sequences, FiniteSets, TLC

VARIABLES
    data,                 \* useTraderPnl().data: [traders |-> Seq(trader)]
    accumulatedBalances,  \* useState<LatestBalanceData[]>
    lastSeenTimestamps,   \* useRef<Map<traderId, timestamp>>
    latestBalanceData,    \* latestBalanceQuery.data.data.traders (last batch)
    selectedTraderId,     \* useState<string | null>, null is ""
    config,               \* useConfig(): isLoading and data.initialAccountBalance
    isPollingEnabled,     \* useLatestBalance: useState(false)
    displayMode,          \* useState<DisplayMode>("balance")
    dimensions,           \* useChartDimensions: useState<ChartDimensions | null>
    padding               \* useState(DEFAULT_CHART_PADDING)

vars == <<data, accumulatedBalances, lastSeenTimestamps, latestBalanceData,
          selectedTraderId, config, isPollingEnabled, displayMode, dimensions,
          padding>>

----------------------------------------------------------------------------
(* Bounds of the model *)

MaxRecords == 2       \* records per trader
MaxTotalRecords == 3  \* records of all traders together
MaxRecordTime == 2    \* record instants are 0..MaxRecordTime
MaxLiveTime == 3      \* live observation instants are 1..MaxLiveTime
MaxAccumulated == 2   \* length of accumulatedBalances in Spec
MaxHistory == 3       \* length of accumulatedBalances in SpecAccumulate
MaxBatch == 2         \* observations of one poll in SpecAccumulate
MaxRenderAccumulated == 1  \* length of accumulatedBalances in SpecRender

Infinity == 1000000000
NoTrader == ""

----------------------------------------------------------------------------
(* Dates *)

\* new Date(ts).getTime()
GetTime(ts) == ts.t

\* new Date(ms).toISOString()
ToISOString(ms) == [t |-> ms, iso |-> TRUE]

Min2(a, b) == IF a < b THEN a ELSE b
Max2(a, b) == IF a > b THEN a ELSE b
Abs(a) == IF a < 0 THEN -a ELSE a

----------------------------------------------------------------------------
(* CompetitorChart: the accumulate effect *)

\* Map.prototype.set
MapSet(m, k, v) == [x \in DOMAIN m \cup {k} |-> IF x = k THEN v ELSE m[x]]

\* The timestamps compared as instants instead of strings
IsNew_ByInstant(seen, balance) ==
    \/ balance.traderId \notin DOMAIN seen
    \/ GetTime(balance.timestamp) /= GetTime(seen[balance.traderId])

\* const isNew = !lastSeen || balance.timestamp !== lastSeen
IsNew(seen, balance) ==
    \/ balance.traderId \notin DOMAIN seen
    \/ balance.timestamp /= seen[balance.traderId]

\* newBalances.filter(...): the kept observations and the map the filter
\* callback leaves behind (it writes the map while it filters)
RECURSIVE FilterTrulyNew(_, _, _)
FilterTrulyNew(newBalances, seen, kept) ==
    IF newBalances = <<>>
    THEN [trulyNewBalances |-> kept, seen |-> seen]
    ELSE LET balance == Head(newBalances)
         IN IF IsNew(seen, balance)
            THEN FilterTrulyNew(Tail(newBalances),
                                MapSet(seen, balance.traderId, balance.timestamp),
                                Append(kept, balance))
            ELSE FilterTrulyNew(Tail(newBalances), seen, kept)

\* The accumulator after the effect has run on one batch
Accumulate(acc, seen, newBalances) ==
    LET f == FilterTrulyNew(newBalances, seen, <<>>)
    IN [accumulatedBalances |->
            IF Len(f.trulyNewBalances) > 0
            THEN acc \o f.trulyNewBalances
            ELSE acc,
        lastSeenTimestamps |-> f.seen]

----------------------------------------------------------------------------
(* useChartData *)

\* The comparator with its operands swapped
SortsBefore_Swapped(a, b) == GetTime(b.timestamp) - GetTime(a.timestamp) < 0

\* The comparator of both sorts: a sorts before b iff the difference of the
\* instants is negative
SortsBefore(a, b) == GetTime(a.timestamp) - GetTime(b.timestamp) < 0

\* Array.prototype.sort is stable: x is inserted after every element that
\* does not sort after it
RECURSIVE InsertSorted(_, _)
InsertSorted(x, s) ==
    IF s = <<>> THEN <<x>>
    ELSE IF SortsBefore(x, Head(s)) THEN <<x>> \o s
    ELSE <<Head(s)>> \o InsertSorted(x, Tail(s))

RECURSIVE SortByTimestamp(_)
\* The list left in its input order
SortByTimestamp_InputOrder(s) == s

SortByTimestamp(s) ==
    IF s = <<>> THEN <<>>
    ELSE InsertSorted(s[Len(s)], SortByTimestamp(SubSeq(s, 1, Len(s) - 1)))

\* First pass: one entry per trader that has records, records sorted
RECURSIVE TraderDataList(_, _)
TraderDataList(traders, i) ==
    IF i > Len(traders) THEN <<>>
    ELSE LET sortedRecords == SortByTimestamp(traders[i].records)
             entry == [traderId |-> traders[i].traderId,
                       index |-> i - 1,
                       timestamps |-> [k \in 1..Len(sortedRecords) |->
                                          sortedRecords[k].timestamp],
                       pnlValues |-> [k \in 1..Len(sortedRecords) |->
                                          sortedRecords[k].accountBalance]]
         IN (IF Len(sortedRecords) = 0 THEN <<>> ELSE <<entry>>)
            \o TraderDataList(traders, i + 1)

\* if (time < globalMinTime) globalMinTime = time, over a list of timestamps
RECURSIVE MinTimeOver(_, _)
MinTimeOver(timestamps, globalMinTime) ==
    IF timestamps = <<>> THEN globalMinTime
    ELSE MinTimeOver(Tail(timestamps),
                     IF GetTime(Head(timestamps)) < globalMinTime
                     THEN GetTime(Head(timestamps)) ELSE globalMinTime)

\* if (time > globalMaxTime) globalMaxTime = time, over a list of timestamps
RECURSIVE MaxTimeOver(_, _)
MaxTimeOver(timestamps, globalMaxTime) ==
    IF timestamps = <<>> THEN globalMaxTime
    ELSE MaxTimeOver(Tail(timestamps),
                     IF GetTime(Head(timestamps)) > globalMaxTime
                     THEN GetTime(Head(timestamps)) ELSE globalMaxTime)

RECURSIVE GlobalMinTime(_, _)
GlobalMinTime(traderDataList, globalMinTime) ==
    IF traderDataList = <<>> THEN globalMinTime
    ELSE GlobalMinTime(Tail(traderDataList),
                       MinTimeOver(Head(traderDataList).timestamps, globalMinTime))

RECURSIVE RecordsMaxTime(_, _)
RecordsMaxTime(traderDataList, globalMaxTime) ==
    IF traderDataList = <<>> THEN globalMaxTime
    ELSE RecordsMaxTime(Tail(traderDataList),
                        MaxTimeOver(Head(traderDataList).timestamps, globalMaxTime))

\* The global maximum of the records alone
GlobalMaxTime_RecordsOnly(traderDataList, latestBalances) ==
    RecordsMaxTime(traderDataList, -Infinity)

\* The global maximum after the accumulated balances have extended it
GlobalMaxTime(traderDataList, latestBalances) ==
    MaxTimeOver([k \in 1..Len(latestBalances) |-> latestBalances[k].timestamp],
                RecordsMaxTime(traderDataList, -Infinity))

\* Variants of the three comparisons below and of the comparator, as a slip
\* would write them
NeedsLeadingPad_OrEqual(firstTime, globalMinTime) == firstTime >= globalMinTime
IsNewer_OrEqual(balanceTime, currentLastTime) == balanceTime >= currentLastTime
NeedsTrailingPad_OrEqual(lastTime, globalMaxTime) == lastTime <= globalMaxTime

\* if (firstTime > globalMinTime)
NeedsLeadingPad(firstTime, globalMinTime) == firstTime > globalMinTime

\* if (balanceTime > currentLastTime)
IsNewer(balanceTime, currentLastTime) == balanceTime > currentLastTime

\* if (lastTime < globalMaxTime)
NeedsTrailingPad(lastTime, globalMaxTime) == lastTime < globalMaxTime

\* for (const balance of sortedLatestBalances) ...
RECURSIVE AppendNewer(_, _, _)
AppendNewer(sortedLatestBalances, curve, currentLastTime) ==
    IF sortedLatestBalances = <<>> THEN curve
    ELSE LET balance == Head(sortedLatestBalances)
             balanceTime == GetTime(balance.timestamp)
         IN IF IsNewer(balanceTime, currentLastTime)
            THEN AppendNewer(Tail(sortedLatestBalances),
                             [timestamps |-> Append(curve.timestamps, balance.timestamp),
                              pnlValues |-> Append(curve.pnlValues, balance.accountBalance)],
                             balanceTime)
            ELSE AppendNewer(Tail(sortedLatestBalances), curve, currentLastTime)

\* latestBalances?.filter((lb) => lb.traderId === trader.traderId)
TraderLatestBalances(latestBalances, traderId) ==
    SelectSeq(latestBalances, LAMBDA lb : lb.traderId = traderId)

\* Leading pad and the original data of one trader
LeadingAligned(td, globalMinTime) ==
    LET firstTime == GetTime(td.timestamps[1])
    IN IF NeedsLeadingPad(firstTime, globalMinTime)
       THEN [timestamps |-> <<ToISOString(globalMinTime)>> \o td.timestamps,
             pnlValues |-> <<td.pnlValues[1]>> \o td.pnlValues]
       ELSE [timestamps |-> td.timestamps, pnlValues |-> td.pnlValues]

\* Second pass for one trader: leading pad, original data, live merge or
\* trailing pad
AlignedCurve(td, globalMinTime, globalMaxTime, latestBalances) ==
    LET lastTime == GetTime(td.timestamps[Len(td.timestamps)])
        aligned == LeadingAligned(td, globalMinTime)
        traderLatestBalances == TraderLatestBalances(latestBalances, td.traderId)
        merged ==
            IF Len(traderLatestBalances) > 0
            THEN AppendNewer(SortByTimestamp(traderLatestBalances), aligned,
                             GetTime(aligned.timestamps[Len(aligned.timestamps)]))
            ELSE IF NeedsTrailingPad(lastTime, globalMaxTime)
            THEN [timestamps |-> Append(aligned.timestamps, ToISOString(globalMaxTime)),
                  pnlValues |-> Append(aligned.pnlValues,
                                       td.pnlValues[Len(td.pnlValues)])]
            ELSE aligned
    IN [traderId |-> td.traderId,
        traderIndex |-> td.index + 1,
        timestamps |-> merged.timestamps,
        pnlValues |-> merged.pnlValues]

AlignedCurves(traderDataList, globalMinTime, globalMaxTime, latestBalances) ==
    [k \in 1..Len(traderDataList) |->
        AlignedCurve(traderDataList[k], globalMinTime, globalMaxTime, latestBalances)]

\* The filter that lets every trader into the range
InBalanceRange_EveryTrader(selected, traderId) == TRUE

\* if (!selectedTraderId || trader.traderId === selectedTraderId)
InBalanceRange(selected, traderId) == selected = NoTrader \/ traderId = selected

RECURSIVE MinOver(_, _)
MinOver(values, minBalance) ==
    IF values = <<>> THEN minBalance
    ELSE MinOver(Tail(values),
                 IF Head(values) < minBalance THEN Head(values) ELSE minBalance)

RECURSIVE MaxOver(_, _)
MaxOver(values, maxBalance) ==
    IF values = <<>> THEN maxBalance
    ELSE MaxOver(Tail(values),
                 IF Head(values) > maxBalance THEN Head(values) ELSE maxBalance)

\* minBalance after the second pass, before the baseline is included
RECURSIVE CurvesMinBalance(_, _, _)
CurvesMinBalance(curves, selected, minBalance) ==
    IF curves = <<>> THEN minBalance
    ELSE CurvesMinBalance(Tail(curves), selected,
            IF InBalanceRange(selected, Head(curves).traderId)
            THEN MinOver(Head(curves).pnlValues, minBalance)
            ELSE minBalance)

RECURSIVE CurvesMaxBalance(_, _, _)
CurvesMaxBalance(curves, selected, maxBalance) ==
    IF curves = <<>> THEN maxBalance
    ELSE CurvesMaxBalance(Tail(curves), selected,
            IF InBalanceRange(selected, Head(curves).traderId)
            THEN MaxOver(Head(curves).pnlValues, maxBalance)
            ELSE maxBalance)

\* The deviation of the upper side alone
MaxDeviation_UpperOnly(minBalance, maxBalance, b) == Abs(maxBalance - b)

\* Math.max(Math.abs(maxBalance - b), Math.abs(b - minBalance))
MaxDeviation(minBalance, maxBalance, b) ==
    Max2(Abs(maxBalance - b), Abs(b - minBalance))

\* maxDeviation * 1.15, in hundredths
PaddedDeviation100(maxDeviation) == maxDeviation * 115

\* A range fitted to the data, padded by 15% of its span, the baseline left
\* out (taken only when no value is displayed)
BalanceRange100_TightFit(curves, selected, b) ==
    LET lowest == CurvesMinBalance(curves, selected, Infinity)
        highest == CurvesMaxBalance(curves, selected, -Infinity)
        minBalance == IF lowest = Infinity THEN b ELSE lowest
        maxBalance == IF highest = -Infinity THEN b ELSE highest
    IN [minY100 |-> 100 * minBalance - 15 * (maxBalance - minBalance),
        maxY100 |-> 100 * maxBalance + 15 * (maxBalance - minBalance)]

\* The symmetric Y range around the baseline, in hundredths
BalanceRange100(curves, selected, b) ==
    LET minBalance == Min2(CurvesMinBalance(curves, selected, Infinity), b)
        maxBalance == Max2(CurvesMaxBalance(curves, selected, -Infinity), b)
        paddedDeviation100 == PaddedDeviation100(MaxDeviation(minBalance, maxBalance, b))
    IN [minY100 |-> 100 * b - paddedDeviation100,
        maxY100 |-> 100 * b + paddedDeviation100]

\* scaleRange: null
NullRange == [isNull |-> TRUE]

\* if (!data?.data?.traders || data.data.traders.length === 0)
NoTraders(d) == ~d.hasTraders \/ Len(d.traders) = 0

UseChartData(d, selected, b, latestBalances) ==
    IF NoTraders(d)
    THEN [curves |-> <<>>, scaleRange |-> NullRange]
    ELSE LET traderDataList == TraderDataList(d.traders, 1)
             globalMinTime == GlobalMinTime(traderDataList, Infinity)
             globalMaxTime == GlobalMaxTime(traderDataList, latestBalances)
             curves == AlignedCurves(traderDataList, globalMinTime, globalMaxTime,
                                     latestBalances)
             range == BalanceRange100(curves, selected, b)
         IN [curves |-> curves,
             scaleRange |-> [isNull |-> FALSE,
                             minX |-> globalMinTime,
                             maxX |-> globalMaxTime,
                             minY100 |-> range.minY100,
                             maxY100 |-> range.maxY100]]

----------------------------------------------------------------------------
(* CompetitorChart: what it passes to useChartData *)

\* initialAccountBalance: number = 10000
DefaultInitialAccountBalance == 10000

\* config?.initialAccountBalance, undefined replaced by the default parameter
Baseline(c) ==
    IF c.isLoading \/ ~c.hasInitialAccountBalance
    THEN DefaultInitialAccountBalance
    ELSE c.initialAccountBalance

\* useChartData(data, selectedTraderId, config?.initialAccountBalance,
\*              accumulatedBalances.length > 0 ? accumulatedBalances : undefined)
ChartData == UseChartData(data, selectedTraderId, Baseline(config), accumulatedBalances)

----------------------------------------------------------------------------
(* JavaScript numbers of the display stage *)

Sign(i) == IF i > 0 THEN 1 ELSE IF i < 0 THEN -1 ELSE 0

RECURSIVE GCD(_, _)
GCD(a, b) == IF b = 0 THEN a ELSE GCD(b, a % b)

\* The number n/d for integers n and d: lowest terms, the sign in n;
\* d = 0 gives Infinity, -Infinity or NaN
Frac(n, d) ==
    IF d = 0 THEN [n |-> Sign(n), d |-> 0]
    ELSE LET g == GCD(Abs(n), Abs(d))
         IN [n |-> (IF d < 0 THEN -n ELSE n) \div g, d |-> Abs(d) \div g]

Num(i) == [n |-> i, d |-> 1]
NaN == [n |-> 0, d |-> 0]
PositiveInfinity == [n |-> 1, d |-> 0]
NegativeInfinity == [n |-> -1, d |-> 0]

\* An optional number that was not passed
Undefined == [n |-> 0, d |-> -1]

IsNaN(x) == x.d = 0 /\ x.n = 0

\* Number.isFinite
IsFinite(x) == x.d > 0

Negate(x) == [n |-> -x.n, d |-> x.d]

Plus(x, y) ==
    IF IsNaN(x) \/ IsNaN(y) THEN NaN
    ELSE IF x.d = 0 /\ y.d = 0 THEN (IF x.n = y.n THEN x ELSE NaN)
    ELSE IF x.d = 0 THEN x
    ELSE IF y.d = 0 THEN y
    ELSE Frac(x.n * y.d + y.n * x.d, x.d * y.d)

Minus(x, y) == Plus(x, Negate(y))

Times(x, y) ==
    IF IsNaN(x) \/ IsNaN(y) THEN NaN ELSE Frac(x.n * y.n, x.d * y.d)

Divide(x, y) ==
    IF IsNaN(x) \/ IsNaN(y) THEN NaN
    ELSE LET n == x.n * y.d
             d == x.d * y.n
         IN IF d = 0
            THEN [n |-> Sign(n) * (IF y.n < 0 THEN -1 ELSE 1), d |-> 0]
            ELSE Frac(n, d)

\* -1, 0, 1 for -Infinity, a finite number, Infinity
Rank(x) == IF x.d = 0 THEN x.n ELSE 0

\* x < y and x <= y: false when an operand is NaN
Lt(x, y) ==
    /\ ~IsNaN(x)
    /\ ~IsNaN(y)
    /\ IF x.d = 0 \/ y.d = 0 THEN Rank(x) < Rank(y)
       ELSE x.n * y.d < y.n * x.d

Le(x, y) ==
    /\ ~IsNaN(x)
    /\ ~IsNaN(y)
    /\ IF x.d = 0 \/ y.d = 0 THEN Rank(x) <= Rank(y)
       ELSE x.n * y.d <= y.n * x.d

\* Math.max and Math.min of two numbers: NaN when an operand is NaN
MathMax(x, y) == IF IsNaN(x) \/ IsNaN(y) THEN NaN ELSE IF Lt(x, y) THEN y ELSE x
MathMin(x, y) == IF IsNaN(x) \/ IsNaN(y) THEN NaN ELSE IF Lt(y, x) THEN y ELSE x

\* Math.max(...values) and Math.min(...values)
RECURSIVE MathMaxOf(_)
MathMaxOf(values) ==
    IF values = <<>> THEN NegativeInfinity
    ELSE MathMax(Head(values), MathMaxOf(Tail(values)))

RECURSIVE MathMinOf(_)
MathMinOf(values) ==
    IF values = <<>> THEN PositiveInfinity
    ELSE MathMin(Head(values), MathMinOf(Tail(values)))

MathAbs(x) == [n |-> Abs(x.n), d |-> x.d]

MathFloor(x) == IF x.d = 0 THEN x ELSE Num(x.n \div x.d)
MathCeil(x) == Negate(MathFloor(Negate(x)))

\* Math.round: halves go up
MathRound(x) == MathFloor(Plus(x, Frac(1, 2)))

\* The largest power of ten that is at most r, for a finite r > 0
RECURSIVE PowerOfTenBelow(_, _)
PowerOfTenBelow(r, m) ==
    IF Lt(r, m) THEN PowerOfTenBelow(r, Divide(m, Num(10)))
    ELSE IF Le(Times(m, Num(10)), r) THEN PowerOfTenBelow(r, Times(m, Num(10)))
    ELSE m

\* Math.pow(10, Math.floor(Math.log10(r))) for r = Math.abs(roughStep):
\* log10(0) is -Infinity and 10^-Infinity is 0
Magnitude(r) ==
    IF IsNaN(r) THEN NaN
    ELSE IF r.d = 0 THEN PositiveInfinity
    ELSE IF r.n = 0 THEN Num(0)
    ELSE PowerOfTenBelow(r, Num(1))

\* d has no prime factor but 2 and 5, each at most ten times: n/d has at
\* most ten decimals
RECURSIVE TenDecimals(_, _, _)
TenDecimals(d, twos, fives) ==
    IF d = 1 THEN TRUE
    ELSE IF d % 2 = 0 /\ twos > 0 THEN TenDecimals(d \div 2, twos - 1, fives)
    ELSE IF d % 5 = 0 /\ fives > 0 THEN TenDecimals(d \div 5, twos, fives - 1)
    ELSE FALSE

\* parseFloat(value.toFixed(10)): Infinity and NaN print and parse as
\* themselves, a number of at most ten decimals is returned as it is.  The
\* ticks are multiples of niceStep, which is 1, 2 or 5 times a power of ten;
\* the operator is not defined on a number with more decimals.
ParseFloatToFixed10(value) ==
    CASE ~IsFinite(value) -> value
      [] IsFinite(value) /\ TenDecimals(value.d, 10, 10) -> value

\* The comparator (a, b) => a - b says a sorts before b
NumberSortsBefore(a, b) == Lt(Minus(a, b), Num(0))

\* ticks.sort((a, b) => a - b), stable
RECURSIVE InsertNumber(_, _)
InsertNumber(x, s) ==
    IF s = <<>> THEN <<x>>
    ELSE IF NumberSortsBefore(x, Head(s)) THEN <<x>> \o s
    ELSE <<Head(s)>> \o InsertNumber(x, Tail(s))

RECURSIVE SortNumbers(_)
SortNumbers(s) ==
    IF s = <<>> THEN <<>>
    ELSE InsertNumber(s[Len(s)], SortNumbers(SubSeq(s, 1, Len(s) - 1)))

\* ticks.includes(x)
Includes(s, x) == \E i \in DOMAIN s : s[i] = x

\* Array.from(new Set(ticks)): the first occurrence of each value is kept
RECURSIVE Unique(_, _)
Unique(s, kept) ==
    IF s = <<>> THEN kept
    ELSE Unique(Tail(s), IF Includes(kept, Head(s)) THEN kept
                         ELSE Append(kept, Head(s)))

\* A value read as a condition: undefined, 0 and NaN are falsy
Truthy(x) == x /= Undefined /\ ~IsNaN(x) /\ x.n /= 0

----------------------------------------------------------------------------
(* transformCurvesByMode and formatTooltipValue *)

\* The curves of useChartData with their values as numbers of the display
\* stage
NumberCurves(curves) ==
    [k \in 1..Len(curves) |->
        [traderId |-> curves[k].traderId,
         traderIndex |-> curves[k].traderIndex,
         timestamps |-> curves[k].timestamps,
         pnlValues |-> [i \in 1..Len(curves[k].pnlValues) |->
                           Num(curves[k].pnlValues[i])]]]

\* The change relative to the initial balance, not in percent
PercentageChange_Ratio(balance, initialAccountBalance) ==
    Divide(Minus(balance, initialAccountBalance), initialAccountBalance)

\* ((balance - initialAccountBalance) / initialAccountBalance) * 100
PercentageChange(balance, initialAccountBalance) ==
    Times(Divide(Minus(balance, initialAccountBalance), initialAccountBalance),
          Num(100))

TransformCurvesByMode(curves, mode, initialAccountBalance) ==
    IF mode = "balance" THEN curves
    ELSE [k \in 1..Len(curves) |->
            [curves[k] EXCEPT !.pnlValues =
                [i \in 1..Len(curves[k].pnlValues) |->
                    PercentageChange(curves[k].pnlValues[i],
                                     initialAccountBalance)]]]

Digit(i) ==
    CASE i = 0 -> "0" [] i = 1 -> "1" [] i = 2 -> "2" [] i = 3 -> "3"
      [] i = 4 -> "4" [] i = 5 -> "5" [] i = 6 -> "6" [] i = 7 -> "7"
      [] i = 8 -> "8" [] i = 9 -> "9"

RECURSIVE NatToString(_)
NatToString(i) ==
    IF i < 10 THEN Digit(i) ELSE NatToString(i \div 10) \o Digit(i % 10)

\* value.toFixed(2): the nearest number of two decimals, the larger one of
\* two nearest, the sign of a negative value in front
ToFixed2(value) ==
    IF IsNaN(value) THEN "NaN"
    ELSE IF value.d = 0 THEN (IF value.n < 0 THEN "-Infinity" ELSE "Infinity")
    ELSE LET hundredths ==
                 MathFloor(Plus(Times(MathAbs(value), Num(100)), Frac(1, 2))).n
         IN (IF value.n < 0 THEN "-" ELSE "")
            \o NatToString(hundredths \div 100) \o "."
            \o Digit((hundredths \div 10) % 10) \o Digit(hundredths % 10)

FormatTooltipValue(value, mode) ==
    LET formatted == ToFixed2(IF Truthy(value) THEN value ELSE Num(0))
    IN IF mode = "balance" THEN formatted
       ELSE (IF Le(Num(0), value) THEN "+" ELSE "") \o formatted \o "%"

----------------------------------------------------------------------------
(* useChartDimensions: the ResizeObserver callback *)

\* DEFAULT_CHART_PADDING
DefaultChartPadding ==
    [top |-> Num(40), right |-> Num(100), bottom |-> Num(40), left |-> Num(60)]

\* useState<ChartDimensions | null>(null)
NullDimensions == [isNull |-> TRUE]

\* paddingConfigs, from the extra large tier down to the extra small one
PaddingConfigs(initialPadding) ==
    <<[minWidth |-> 1200, minHeight |-> 800,
       padding |-> [top |-> MathMax(initialPadding.top, Num(40)),
                    right |-> MathMin(initialPadding.right, Num(140)),
                    bottom |-> MathMax(initialPadding.bottom, Num(50)),
                    left |-> MathMin(initialPadding.left, Num(80))]],
      [minWidth |-> 900, minHeight |-> 600,
       padding |-> [top |-> MathMax(initialPadding.top, Num(30)),
                    right |-> MathMax(initialPadding.right, Num(30)),
                    bottom |-> MathMax(initialPadding.bottom, Num(40)),
                    left |-> MathMax(initialPadding.left, Num(70))]],
      [minWidth |-> 600, minHeight |-> 400,
       padding |-> [top |-> MathMax(initialPadding.top, Num(25)),
                    right |-> MathMax(initialPadding.right, Num(25)),
                    bottom |-> MathMax(initialPadding.bottom, Num(35)),
                    left |-> MathMin(initialPadding.left, Num(60))]],
      [minWidth |-> 400, minHeight |-> 300,
       padding |-> [top |-> MathMax(initialPadding.top, Num(20)),
                    right |-> MathMin(initialPadding.right, Num(20)),
                    bottom |-> MathMax(initialPadding.bottom, Num(30)),
                    left |-> MathMin(initialPadding.left, Num(50))]],
      [minWidth |-> 0, minHeight |-> 0,
       padding |-> [top |-> MathMax(initialPadding.top, Num(15)),
                    right |-> MathMin(initialPadding.right, Num(15)),
                    bottom |-> MathMax(initialPadding.bottom, Num(25)),
                    left |-> MathMin(initialPadding.left, Num(40))]]>>

\* paddingConfigs.find(...) || paddingConfigs[paddingConfigs.length - 1]
RECURSIVE FindPaddingConfig(_, _, _)
FindPaddingConfig(configs, containerWidth, containerHeight) ==
    IF Len(configs) = 1 THEN Head(configs)
    ELSE IF /\ containerWidth >= Head(configs).minWidth
            /\ containerHeight >= Head(configs).minHeight
    THEN Head(configs)
    ELSE FindPaddingConfig(Tail(configs), containerWidth, containerHeight)

CalculateResponsivePadding(containerWidth, containerHeight, initialPadding) ==
    LET tier == FindPaddingConfig(PaddingConfigs(initialPadding),
                                  containerWidth, containerHeight).padding
        minChartWidth == Num(200)
        minChartHeight == Num(150)
        availableWidth ==
            Minus(Minus(Num(containerWidth), tier.left), tier.right)
        availableHeight ==
            Minus(Minus(Num(containerHeight), tier.top), tier.bottom)
        scaleWidth == Divide(Minus(Num(containerWidth), minChartWidth),
                             Plus(tier.left, tier.right))
        scaleHeight == Divide(Minus(Num(containerHeight), minChartHeight),
                              Plus(tier.top, tier.bottom))
        narrow == Lt(availableWidth, minChartWidth)
        low == Lt(availableHeight, minChartHeight)
    IN [top |-> IF low THEN MathMax(Times(tier.top, scaleHeight), Num(15))
                ELSE tier.top,
        right |-> IF narrow THEN MathMax(Times(tier.right, scaleWidth), Num(20))
                  ELSE tier.right,
        bottom |-> IF low THEN MathMax(Times(tier.bottom, scaleHeight), Num(20))
                   ELSE tier.bottom,
        left |-> IF narrow THEN MathMax(Times(tier.left, scaleWidth), Num(20))
                 ELSE tier.left]

\* The dimensions the callback stores for a content rectangle
ObservedDimensions(width, height, initialPadding) ==
    LET newPadding == CalculateResponsivePadding(width, height, initialPadding)
    IN [isNull |-> FALSE,
        width |-> width,
        height |-> height,
        padding |-> newPadding,
        chartWidth |->
            MathMax(Minus(Minus(Num(width), newPadding.left), newPadding.right),
                    Num(0)),
        chartHeight |->
            MathMax(Minus(Minus(Num(height), newPadding.top), newPadding.bottom),
                    Num(0))]

----------------------------------------------------------------------------
(* calculateYAxisTicksFromCurves *)

\* { desiredSpacingPx = 80, minTicks = 3, maxTicks = 10 }
DesiredSpacingPx == 80
MinTicks == 3
MaxTicks == 10

\* curves.forEach((curve) => allValues.push(...curve.pnlValues))
RECURSIVE CurveValues(_)
CurveValues(curves) ==
    IF curves = <<>> THEN <<>>
    ELSE Head(curves).pnlValues \o CurveValues(Tail(curves))

\* allValues, the reference point of the mode pushed last
AllValues(curves, initialAccountBalance, mode) ==
    CurveValues(curves)
    \o (IF mode = "percentage" THEN <<Num(0)>>
        ELSE IF initialAccountBalance /= Undefined THEN <<initialAccountBalance>>
        ELSE <<>>)

\* displayMode === "percentage" ? 0 : (initialAccountBalance ?? 0)
TickBaseline(initialAccountBalance, mode) ==
    IF mode = "percentage" THEN Num(0)
    ELSE IF initialAccountBalance /= Undefined THEN initialAccountBalance
    ELSE Num(0)

\* if (curves.length === 0 || chartHeight <= 0)
NothingToMeasure(curves, chartHeight) ==
    Len(curves) = 0 \/ Le(chartHeight, Num(0))

DefaultYAxis(initialAccountBalance) ==
    LET defaultMin == IF Truthy(initialAccountBalance)
                      THEN Times(initialAccountBalance, Frac(9, 10)) ELSE Num(0)
        defaultMax == IF Truthy(initialAccountBalance)
                      THEN Times(initialAccountBalance, Frac(11, 10)) ELSE Num(100)
    IN [ticks |-> <<defaultMin,
                    IF Truthy(initialAccountBalance) THEN initialAccountBalance
                    ELSE Num(50),
                    defaultMax>>,
        minY |-> defaultMin,
        maxY |-> defaultMax]

\* if (curves.length <= 2 && dataRange <= 5)
IsSmallRange(curves, dataRange) == Len(curves) <= 2 /\ Le(dataRange, Num(5))

\* The lower clamps of the two modes
ClampMinY_Unclamped(minY, mode) == minY

ClampMinY(minY, mode) ==
    LET balanceClamped == IF mode = "balance" THEN MathMax(minY, Num(0)) ELSE minY
    IN IF mode = "percentage" THEN MathMax(balanceClamped, Num(-100))
       ELSE balanceClamped

\* for (let tick = startTick; tick <= endTick; tick++) ticks.push(tick)
IntegerTicks(startTick, endTick) ==
    IF IsFinite(startTick) /\ IsFinite(endTick)
    THEN [i \in 1..(endTick.n - startTick.n + 1) |-> Num(startTick.n + i - 1)]
    ELSE <<>>

\* Math.ceil(maxDeviation) + 1 without the added unit
HalfRange_NoMargin(maxDeviation) == MathCeil(maxDeviation)

\* Math.ceil(maxDeviation) + 1
HalfRange(maxDeviation) == Plus(MathCeil(maxDeviation), Num(1))

SmallRangeYAxis(dataMin, dataMax, initialAccountBalance, mode) ==
    LET baseline == TickBaseline(initialAccountBalance, mode)
        maxDeviation == MathMax(MathMax(MathAbs(Minus(dataMax, baseline)),
                                        MathAbs(Minus(baseline, dataMin))),
                                Num(1))
        halfRange == HalfRange(maxDeviation)
        minY == ClampMinY(Minus(baseline, halfRange), mode)
        maxY == Plus(baseline, halfRange)
        integers == IntegerTicks(MathCeil(minY), MathFloor(maxY))
        ticks == IF /\ Le(minY, baseline)
                    /\ Le(baseline, maxY)
                    /\ ~Includes(integers, baseline)
                 THEN SortNumbers(Append(integers, baseline))
                 ELSE integers
    IN IF Len(ticks) < 3
       THEN LET midY == MathRound(Divide(Plus(minY, maxY), Num(2)))
                uniqueTicks ==
                    SortNumbers(Unique(<<MathFloor(minY), midY, MathCeil(maxY)>>,
                                       <<>>))
            IN [ticks |-> uniqueTicks,
                minY |-> MathMinOf(uniqueTicks),
                maxY |-> MathMaxOf(uniqueTicks)]
       ELSE [ticks |-> ticks, minY |-> minY, maxY |-> maxY]

\* displayMode === "percentage" ? 30 : 300
MaxPadding(mode) == IF mode = "percentage" THEN Num(30) ELSE Num(300)

\* minY and maxY of the general case, after the clamps
GeneralRange(dataMin, dataMax, initialAccountBalance, mode) ==
    LET dataRange == Minus(dataMax, dataMin)
        dataPadding == MathMin(MathMax(Times(dataRange, Frac(1, 10)), Num(1)),
                               MaxPadding(mode))
        baseline == TickBaseline(initialAccountBalance, mode)
        deviationFromBase == MathMax(MathAbs(Minus(dataMax, baseline)),
                                     MathAbs(Minus(baseline, dataMin)))
        paddedDeviation == MathMin(Times(deviationFromBase, Frac(115, 100)),
                                   Plus(deviationFromBase, MaxPadding(mode)))
        centred == mode = "percentage" \/ initialAccountBalance /= Undefined
        minY == IF centred THEN Minus(baseline, paddedDeviation)
                ELSE Minus(dataMin, dataPadding)
        maxY == IF centred THEN Plus(baseline, paddedDeviation)
                ELSE Plus(dataMax, dataPadding)
    IN [minY |-> ClampMinY(MathMax(minY, Minus(dataMin, MaxPadding(mode))), mode),
        maxY |-> MathMin(maxY, Plus(dataMax, MaxPadding(mode)))]

\* Math.abs(range) < Number.EPSILON.  Number.EPSILON is 2^-52; a number of
\* the model that is not zero has a denominator below 2^31, so it is below
\* Number.EPSILON in magnitude exactly when it is zero.
BelowEpsilon(range) == IsFinite(range) /\ range.n = 0

\* The three ticks of a range without extent
DegenerateYAxis(minY) ==
    LET offset == MathMax(Times(MathAbs(minY), Frac(1, 20)), Num(1))
    IN [ticks |-> <<Minus(minY, offset), minY, Plus(minY, offset)>>,
        minY |-> Minus(minY, offset),
        maxY |-> Plus(minY, offset)]

TargetTicks(chartHeight) ==
    LET ticksByHeight ==
            Plus(MathFloor(Divide(chartHeight, Num(DesiredSpacingPx))), Num(1))
    IN MathMax(Num(MinTicks),
               MathMin(IF IsFinite(ticksByHeight) THEN ticksByHeight
                       ELSE Num(MinTicks),
                       Num(MaxTicks)))

\* The "nice" step: 1, 2, 5 or 10 times the magnitude of the rough step
NiceStep(roughStep) ==
    LET magnitude == Magnitude(MathAbs(roughStep))
        normalized == Divide(MathAbs(roughStep), magnitude)
    IN IF Le(normalized, Num(1)) THEN magnitude
       ELSE IF Le(normalized, Num(2)) THEN Times(Num(2), magnitude)
       ELSE IF Le(normalized, Num(5)) THEN Times(Num(5), magnitude)
       ELSE Times(Num(10), magnitude)

\* for (let value = firstTick; value <= lastTick + niceStep * 0.5;
\*      value += niceStep) ticks.push(parseFloat(value.toFixed(10)))
RECURSIVE GenerateTicks(_, _, _, _)
GenerateTicks(value, limit, niceStep, ticks) ==
    IF Le(value, limit)
    THEN GenerateTicks(Plus(value, niceStep), limit, niceStep,
                       Append(ticks, ParseFloatToFixed10(value)))
    ELSE ticks

\* ticks.some((tick) => Math.abs(tick - baseline) < niceStep * 0.3)
HasCloseTick(ticks, baseline, niceStep) ==
    \E i \in DOMAIN ticks :
        Lt(MathAbs(Minus(ticks[i], baseline)), Times(niceStep, Frac(3, 10)))

\* The step of the general case for a range and a chart height
StepOf(minY, maxY, chartHeight) ==
    NiceStep(Divide(Minus(maxY, minY),
                    MathMax(Minus(TargetTicks(chartHeight), Num(1)), Num(1))))

GeneralYAxis(dataMin, dataMax, chartHeight, initialAccountBalance, mode) ==
    LET r == GeneralRange(dataMin, dataMax, initialAccountBalance, mode)
        minY == r.minY
        maxY == r.maxY
        range == Minus(maxY, minY)
    IN IF BelowEpsilon(MathAbs(range)) THEN DegenerateYAxis(minY)
       ELSE LET niceStep == StepOf(minY, maxY, chartHeight)
                firstTick == Times(MathCeil(Divide(minY, niceStep)), niceStep)
                lastTick == Times(MathFloor(Divide(maxY, niceStep)), niceStep)
                baseline == TickBaseline(initialAccountBalance, mode)
                shouldIncludeBaseline == Le(minY, baseline) /\ Le(baseline, maxY)
                generated ==
                    GenerateTicks(firstTick,
                                  Plus(lastTick, Times(niceStep, Frac(1, 2))),
                                  niceStep, <<>>)
                ticks == IF /\ shouldIncludeBaseline
                            /\ ~HasCloseTick(generated, baseline, niceStep)
                         THEN SortNumbers(Append(generated, baseline))
                         ELSE generated
            IN IF Len(ticks) < 2
               THEN [ticks |-> <<minY, Divide(Plus(minY, maxY), Num(2)), maxY>>,
                     minY |-> minY,
                     maxY |-> maxY]
               ELSE [ticks |-> ticks, minY |-> minY, maxY |-> maxY]

CalculateYAxisTicksFromCurves(curves, chartHeight, initialAccountBalance, mode) ==
    IF NothingToMeasure(curves, chartHeight)
    THEN DefaultYAxis(initialAccountBalance)
    ELSE LET allValues == AllValues(curves, initialAccountBalance, mode)
             dataMin == MathMinOf(allValues)
             dataMax == MathMaxOf(allValues)
             dataRange == Minus(dataMax, dataMin)
         IN IF IsSmallRange(curves, dataRange)
            THEN SmallRangeYAxis(dataMin, dataMax, initialAccountBalance, mode)
            ELSE GeneralYAxis(dataMin, dataMax, chartHeight,
                              initialAccountBalance, mode)

----------------------------------------------------------------------------
(* Inputs *)

SeqsUpTo(S, n) == UNION {[1..k -> S] : k \in 0..n}

\* Balances the records of a trader take: trader A at or above the default
\* baseline, trader B at or below it
RecordBalances(traderId) ==
    IF traderId = "A" THEN {10000, 11000} ELSE {10000, 9000}

RecordsOf(traderId, isoForms) ==
    [timestamp : [t : 0..MaxRecordTime, iso : isoForms],
     accountBalance : RecordBalances(traderId)]

PayloadOf(recordsA, recordsB) ==
    [isLoading |-> FALSE, hasTraders |-> TRUE,
     traders |-> <<[traderId |-> "A", records |-> recordsA],
                   [traderId |-> "B", records |-> recordsB]>>]

\* { data: { traders: [] } } and a response without traders
EmptyPayload == [isLoading |-> FALSE, hasTraders |-> TRUE, traders |-> <<>>]
MissingPayload == [isLoading |-> FALSE, hasTraders |-> FALSE, traders |-> <<>>]

\* Scenario 1 of the specification: A [(t0,10000),(t1,11000)],
\* B [(t0,10000),(t2,9000)]
Scenario1Payload ==
    PayloadOf(<<[timestamp |-> ToISOString(0), accountBalance |-> 10000],
                [timestamp |-> ToISOString(1), accountBalance |-> 11000]>>,
              <<[timestamp |-> ToISOString(0), accountBalance |-> 10000],
                [timestamp |-> ToISOString(2), accountBalance |-> 9000]>>)

\* Payloads of two traders with at most MaxRecords records each and at most
\* MaxTotalRecords together, Scenario 1, and the two payloads without traders
Payloads ==
    {PayloadOf(r[1], r[2]) :
        r \in {q \in SeqsUpTo(RecordsOf("A", {TRUE}), MaxRecords)
                      \X SeqsUpTo(RecordsOf("B", {TRUE}), MaxRecords) :
                  Len(q[1]) + Len(q[2]) <= MaxTotalRecords}}
    \cup {Scenario1Payload, EmptyPayload, MissingPayload}

Configs ==
    {[isLoading |-> FALSE, hasInitialAccountBalance |-> FALSE, initialAccountBalance |-> 0],
     [isLoading |-> FALSE, hasInitialAccountBalance |-> TRUE, initialAccountBalance |-> 10500]}

\* Live observations of the traders that have curves
ChartObservations ==
    [traderId : {"A", "B"},
     accountBalance : {10500},
     timestamp : [t : 1..MaxLiveTime, iso : {TRUE}]]

\* In Spec a poll returns one observation
ChartBatches == {<<o>> : o \in ChartObservations}

\* Live observations of SpecAccumulate: two balances, both string forms of
\* each instant
AccumulateObservations ==
    [traderId : {"A", "B"},
     accountBalance : {9500, 10500},
     timestamp : [t : 2..MaxLiveTime, iso : BOOLEAN]]

AccumulateBatches == SeqsUpTo(AccumulateObservations, MaxBatch)

AccumulatePayloads == {Scenario1Payload}

\* Payloads of SpecRender: three traders A, B, C, each without records or
\* with one record at instant 0
RenderBalances == {0, 10000, 10003}

RenderRecords ==
    {<<>>} \cup {<<[timestamp |-> ToISOString(0), accountBalance |-> v]>> :
                    v \in RenderBalances}

PayloadOfThree(recordsA, recordsB, recordsC) ==
    [isLoading |-> FALSE, hasTraders |-> TRUE,
     traders |-> <<[traderId |-> "A", records |-> recordsA],
                   [traderId |-> "B", records |-> recordsB],
                   [traderId |-> "C", records |-> recordsC]>>]

\* Scenario 2 of the specification: a single trader with the single record
\* (t0, 10000)
Scenario2Payload ==
    [isLoading |-> FALSE, hasTraders |-> TRUE,
     traders |-> <<[traderId |-> "A",
                    records |-> <<[timestamp |-> ToISOString(0),
                                   accountBalance |-> 10000]>>]>>]

\* A gains 20%: A [(t0,10000),(t1,12000)], B without records
GainPayload ==
    PayloadOf(<<[timestamp |-> ToISOString(0), accountBalance |-> 10000],
                [timestamp |-> ToISOString(1), accountBalance |-> 12000]>>,
              <<>>)

\* Two traders far below and above 10000: A [(t0,5400)], B [(t0,11400)]
WidePayload ==
    PayloadOf(<<[timestamp |-> ToISOString(0), accountBalance |-> 5400]>>,
              <<[timestamp |-> ToISOString(0), accountBalance |-> 11400]>>)

RenderPayloads ==
    {PayloadOfThree(r[1], r[2], r[3]) :
        r \in RenderRecords \X RenderRecords \X RenderRecords}
    \cup {Scenario1Payload, Scenario2Payload, GainPayload, WidePayload,
          EmptyPayload, MissingPayload}

\* The config without a balance, with 10000 and with 0
RenderConfigs ==
    {[isLoading |-> FALSE, hasInitialAccountBalance |-> FALSE, initialAccountBalance |-> 0],
     [isLoading |-> FALSE, hasInitialAccountBalance |-> TRUE, initialAccountBalance |-> 10000],
     [isLoading |-> FALSE, hasInitialAccountBalance |-> TRUE, initialAccountBalance |-> 0]}

RenderBatches ==
    {<<[traderId |-> "A", accountBalance |-> 10002, timestamp |-> ToISOString(1)]>>}

\* Content rectangles the ResizeObserver reports, as <<width, height>>
ContainerSizes == {<<300, 0>>, <<300, 30>>, <<300, 200>>, <<1300, 900>>}

----------------------------------------------------------------------------
(* calculateIndexBasedXTicks of TraderPnLChart *)

\* const minTickSpacing = 120; Math.max(3, Math.min(..., 12))
MinTickSpacing == 120
MinXTicks == 3
MaxXTicks == 12

\* The tick count without its two limits
XTickCount_Unclamped(chartWidth) ==
    Plus(MathFloor(Divide(chartWidth, Num(MinTickSpacing))), Num(1))

\* Math.max(3, Math.min(Math.floor(chartWidth / minTickSpacing) + 1, 12))
XTickCount(chartWidth) ==
    MathMax(Num(MinXTicks),
            MathMin(Plus(MathFloor(Divide(chartWidth, Num(MinTickSpacing))), Num(1)),
                    Num(MaxXTicks)))

\* for (let i = 0; i < maxTicks; i++) tickIndices.push(Math.round(i * step))
TickIndices(numDataPoints, maxTicks) ==
    LET step == Divide(Num(numDataPoints - 1), Minus(maxTicks, Num(1)))
    IN [k \in 1..maxTicks.n |-> MathRound(Times(Num(k - 1), step))]

\* firstCurve.timestamps[index] || firstCurve.timestamps[length - 1]
TickTimestamp(firstCurve, index) ==
    IF index + 1 \in DOMAIN firstCurve.timestamps
    THEN firstCurve.timestamps[index + 1]
    ELSE firstCurve.timestamps[Len(firstCurve.timestamps)]

\* calculateIndexBasedXTicks; indices count from 0 as in the source
CalculateIndexBasedXTicks(numDataPoints, chartWidth, displayedCurves) ==
    IF numDataPoints = 0 THEN <<>>
    ELSE IF numDataPoints = 1
    THEN <<[index |-> 0,
            timestamp |-> displayedCurves[1].timestamps[1],
            x |-> Divide(chartWidth, Num(2))]>>
    ELSE LET tickIndices == TickIndices(numDataPoints, XTickCount(chartWidth))
         IN [k \in DOMAIN tickIndices |->
               [index |-> tickIndices[k].n,
                timestamp |-> TickTimestamp(displayedCurves[1], tickIndices[k].n),
                x |-> Times(Divide(tickIndices[k], Num(numDataPoints - 1)),
                            chartWidth)]]

\* displayedCurves.length > 0 ? displayedCurves[0].timestamps.length : 0
NumDataPoints(displayedCurves) ==
    IF Len(displayedCurves) > 0 THEN Len(displayedCurves[1].timestamps) ELSE 0

----------------------------------------------------------------------------
(* calculateXAxisTicks *)

\* { desiredSpacingPx = 120, minTicks = 3, maxTicks = 12 }
XAxisDesiredSpacingPx == 120
XAxisMinTicks == 3
XAxisMaxTicks == 12

\* The intervals, from a minute to a year.  In this function an instant of
\* the model stands for 10 000 ms, so that a minute is 6 instants and the
\* year, 31 536 000 000 ms in the source, stays within the integers of the
\* model checker.
XAxisIntervals ==
    <<6, 30, 90, 180, 360, 1080, 2160, 4320, 8640, 17280, 25920, 60480, 120960,
      259200, 777600, 1555200, 3153600>>

\* Math.max(minTicks, Math.min(Math.floor(chartWidth / desiredSpacingPx) + 1,
\*                             maxTicks))
ApproximateTickCount(chartWidth) ==
    MathMax(Num(XAxisMinTicks),
            MathMin(Plus(MathFloor(Divide(chartWidth, Num(XAxisDesiredSpacingPx))),
                         Num(1)),
                    Num(XAxisMaxTicks)))

\* Math.abs(timeRange / interval - approximateTickCount)
TickCountDiff(timeRange, interval, approximateTickCount) ==
    MathAbs(Minus(Frac(timeRange, interval), approximateTickCount))

\* a / b < c / d for a, c >= 0 and b, d > 0, compared by whole parts and
\* remainders so that no product is formed
RECURSIVE FractionLess(_, _, _, _)
FractionLess(a, b, c, d) ==
    IF a \div b /= c \div d THEN a \div b < c \div d
    ELSE IF c % d = 0 THEN FALSE
    ELSE IF a % b = 0 THEN TRUE
    ELSE FractionLess(d, c % d, b, a % b)

\* candidateDiff < bestDiff ? candidate : best, for the positions of best
\* and candidate in intervals, diffs[k] being the diff of intervals[k]
CloserInterval(best, candidate, diffs) ==
    IF FractionLess(diffs[candidate].n, diffs[candidate].d,
                    diffs[best].n, diffs[best].d)
    THEN candidate ELSE best

\* intervals.reduce(...) without an initial value over the first k intervals
RECURSIVE ReduceIntervals(_, _)
ReduceIntervals(k, diffs) ==
    IF k = 1 THEN 1 ELSE CloserInterval(ReduceIntervals(k - 1, diffs), k, diffs)

TargetInterval(timeRange, approximateTickCount) ==
    LET diffs == [k \in 1..Len(XAxisIntervals) |->
                    TickCountDiff(timeRange, XAxisIntervals[k], approximateTickCount)]
    IN XAxisIntervals[ReduceIntervals(Len(XAxisIntervals), diffs)]

\* for (let value = firstTick; value <= lastTick + interval * 0.5;
\*      value += interval) ticks.push(new Date(value).toISOString())
RECURSIVE GenerateXTicks(_, _, _, _)
GenerateXTicks(value, lastTick, interval, ticks) ==
    IF 2 * value <= 2 * lastTick + interval
    THEN GenerateXTicks(value + interval, lastTick, interval,
                        Append(ticks, ToISOString(value)))
    ELSE ticks

\* The last tick forced onto maxX
EndOnMaxX(ticks, maxX, interval) ==
    LET maxXTimestamp == ToISOString(maxX) IN
    IF ticks = <<>> THEN <<maxXTimestamp>>
    ELSE IF ticks[Len(ticks)] /= maxXTimestamp
    THEN LET timeDiffFromMax == maxX - GetTime(ticks[Len(ticks)])
         IN (IF 10 * timeDiffFromMax < 3 * interval /\ Len(ticks) > 2
             THEN SubSeq(ticks, 1, Len(ticks) - 1) ELSE ticks)
            \o <<maxXTimestamp>>
    ELSE ticks

\* calculateXAxisTicks for a finite scaleRange
CalculateXAxisTicks(minX, maxX, chartWidth) ==
    LET timeRange == maxX - minX
    IN IF timeRange <= 0 \/ Le(chartWidth, Num(0))
       THEN <<ToISOString(minX)>>
       ELSE LET interval == TargetInterval(timeRange, ApproximateTickCount(chartWidth))
                firstTick == -(((-minX) \div interval) * interval)
                lastTick == (maxX \div interval) * interval
                ticks == EndOnMaxX(GenerateXTicks(firstTick, lastTick, interval, <<>>),
                                   maxX, interval)
            IN IF Len(ticks) < 2
               THEN <<ToISOString(minX), ToISOString(maxX)>>
               ELSE ticks

----------------------------------------------------------------------------
(* The state machine *)

Init ==
    /\ data = [isLoading |-> TRUE, hasTraders |-> FALSE, traders |-> <<>>]
    /\ config = [isLoading |-> TRUE, hasInitialAccountBalance |-> FALSE,
                 initialAccountBalance |-> 0]
    /\ accumulatedBalances = <<>>
    /\ lastSeenTimestamps = <<>>
    /\ latestBalanceData = <<>>
    /\ selectedTraderId = NoTrader
    /\ isPollingEnabled = FALSE
    /\ displayMode = "balance"
    /\ dimensions = NullDimensions
    /\ padding = DefaultChartPadding

\* The state of the display stage
displayVars == <<displayMode, dimensions, padding>>

\* useTraderPnl() settles with the trader P&L payload
TraderPnlSettled(payload) ==
    /\ data.isLoading
    /\ data' = payload
    /\ UNCHANGED <<accumulatedBalances, lastSeenTimestamps, latestBalanceData,
                   selectedTraderId, config, isPollingEnabled>>
    /\ UNCHANGED displayVars

\* useConfig() settles
ConfigSettled(c) ==
    /\ config.isLoading
    /\ config' = c
    /\ UNCHANGED <<data, accumulatedBalances, lastSeenTimestamps, latestBalanceData,
                   selectedTraderId, isPollingEnabled>>
    /\ UNCHANGED displayVars

\* startPolling called without waiting for the initial load
StartPolling_BeforeLoad ==
    /\ ~isPollingEnabled
    /\ isPollingEnabled' = TRUE
    /\ UNCHANGED <<data, accumulatedBalances, lastSeenTimestamps, latestBalanceData,
                   selectedTraderId, config>>
    /\ UNCHANGED displayVars

\* The effect that starts polling after the initial load
StartPolling ==
    /\ ~data.isLoading
    /\ ~config.isLoading
    /\ data.hasTraders
    /\ ~isPollingEnabled
    /\ isPollingEnabled' = TRUE
    /\ UNCHANGED <<data, accumulatedBalances, lastSeenTimestamps, latestBalanceData,
                   selectedTraderId, config>>
    /\ UNCHANGED displayVars

\* A latest-balance poll settles with a batch and the accumulate effect runs
LatestBalanceSettled(newBalances) ==
    /\ isPollingEnabled
    /\ latestBalanceData' = newBalances
    /\ LET a == Accumulate(accumulatedBalances, lastSeenTimestamps, newBalances)
       IN /\ accumulatedBalances' = a.accumulatedBalances
          /\ lastSeenTimestamps' = a.lastSeenTimestamps
    /\ UNCHANGED <<data, selectedTraderId, config, isPollingEnabled>>
    /\ UNCHANGED displayVars

\* The chart is rendered (not the skeleton, not the empty state)
ChartRendered(chart) ==
    /\ ~data.isLoading
    /\ ~config.isLoading
    /\ chart.scaleRange /= NullRange
    /\ Len(chart.curves) /= 0

\* TraderPnLChart: displayedCurves
DisplayedCurves(curves, selected) ==
    IF selected /= NoTrader
    THEN SelectSeq(curves, LAMBDA curve : curve.traderId = selected)
    ELSE curves

\* TraderPnLChart: handleCurveClick on a displayed curve
HandleCurveClick(chart, traderId) ==
    /\ ChartRendered(chart)
    /\ \E k \in 1..Len(DisplayedCurves(chart.curves, selectedTraderId)) :
          DisplayedCurves(chart.curves, selectedTraderId)[k].traderId = traderId
    /\ selectedTraderId' = IF selectedTraderId = traderId THEN NoTrader ELSE traderId
    /\ UNCHANGED <<data, accumulatedBalances, lastSeenTimestamps, latestBalanceData,
                   config, isPollingEnabled>>
    /\ UNCHANGED displayVars

\* The BACK TO ALL button, shown when the selected trader has a curve
BackToAll(chart) ==
    /\ ChartRendered(chart)
    /\ selectedTraderId /= NoTrader
    /\ \E k \in 1..Len(chart.curves) : chart.curves[k].traderId = selectedTraderId
    /\ selectedTraderId' = NoTrader
    /\ UNCHANGED <<data, accumulatedBalances, lastSeenTimestamps, latestBalanceData,
                   config, isPollingEnabled>>
    /\ UNCHANGED displayVars

Next ==
    \/ /\ data.isLoading
       /\ \E payload \in Payloads : TraderPnlSettled(payload)
    \/ /\ config.isLoading
       /\ \E c \in Configs : ConfigSettled(c)
    \/ StartPolling
    \/ /\ isPollingEnabled
       /\ \E newBalances \in ChartBatches :
             /\ Len(accumulatedBalances) + Len(newBalances) <= MaxAccumulated
             /\ LatestBalanceSettled(newBalances)
    \/ /\ ~data.isLoading
       /\ ~config.isLoading
       /\ LET chart == ChartData
          IN \/ \E traderId \in {"A", "B"} : HandleCurveClick(chart, traderId)
             \/ BackToAll(chart)

Spec == Init /\ [][Next]_vars

\* The same machine, fed with one payload and with polls of up to MaxBatch
\* observations drawn from AccumulateObservations
NextAccumulate ==
    \/ /\ data.isLoading
       /\ \E payload \in AccumulatePayloads : TraderPnlSettled(payload)
    \/ /\ config.isLoading
       /\ \E c \in Configs : ConfigSettled(c)
    \/ StartPolling
    \/ /\ isPollingEnabled
       /\ \E newBalances \in AccumulateBatches :
             /\ Len(accumulatedBalances) + Len(newBalances) <= MaxHistory
             /\ LatestBalanceSettled(newBalances)
    \/ /\ ~data.isLoading
       /\ ~config.isLoading
       /\ LET chart == ChartData
          IN \/ \E traderId \in {"A", "B"} : HandleCurveClick(chart, traderId)
             \/ BackToAll(chart)

SpecAccumulate == Init /\ [][NextAccumulate]_vars

----------------------------------------------------------------------------
(* The display stage of the state machine *)

\* config?.initialAccountBalance, as TraderPnLChart receives it
InitialAccountBalanceProp(c) ==
    IF c.isLoading \/ ~c.hasInitialAccountBalance THEN Undefined
    ELSE Num(c.initialAccountBalance)

\* config?.initialAccountBalance ?? 10000
TransformDefaultBalance == 10000

TransformBaseline(c) ==
    IF InitialAccountBalanceProp(c) = Undefined THEN Num(TransformDefaultBalance)
    ELSE InitialAccountBalanceProp(c)

\* const transformedCurves = transformCurvesByMode(curves, displayMode, ...)
TransformedCurves(chart) ==
    TransformCurvesByMode(NumberCurves(chart.curves), displayMode,
                          TransformBaseline(config))

\* TraderPnLChart is past its "if (!dimensions)" return
ChartDrawn(chart) == ChartRendered(chart) /\ ~dimensions.isNull

\* TraderPnLChart: { ticks: yTickValues, minY: dynamicMinY, maxY: dynamicMaxY }
YAxis(chart) ==
    CalculateYAxisTicksFromCurves(
        DisplayedCurves(TransformedCurves(chart), selectedTraderId),
        dimensions.chartHeight, InitialAccountBalanceProp(config), displayMode)

\* TraderPnLChart: const xTicksData = calculateIndexBasedXTicks(...)
XTicksData(chart) ==
    LET displayedCurves == DisplayedCurves(TransformedCurves(chart), selectedTraderId)
    IN CalculateIndexBasedXTicks(NumDataPoints(displayedCurves),
                                 dimensions.chartWidth, displayedCurves)

\* DisplayModeToggle: onModeChange(mode)
SetDisplayMode(chart, mode) ==
    /\ ChartRendered(chart)
    /\ displayMode' = mode
    /\ UNCHANGED <<data, accumulatedBalances, lastSeenTimestamps, latestBalanceData,
                   selectedTraderId, config, isPollingEnabled, dimensions, padding>>

\* The ResizeObserver callback of the mounted chart, for a content rectangle
\* with an extent
Resize(chart, width, height) ==
    /\ ChartRendered(chart)
    /\ ~(width = 0 \/ height = 0)
    /\ dimensions' = ObservedDimensions(width, height, DefaultChartPadding)
    /\ padding' = dimensions'.padding
    /\ UNCHANGED <<data, accumulatedBalances, lastSeenTimestamps, latestBalanceData,
                   selectedTraderId, config, isPollingEnabled, displayMode>>

\* The machine with its display stage, fed with the payloads and configs of
\* the display scenarios
NextRender ==
    \/ /\ data.isLoading
       /\ \E payload \in RenderPayloads : TraderPnlSettled(payload)
    \/ /\ config.isLoading
       /\ \E c \in RenderConfigs : ConfigSettled(c)
    \/ StartPolling
    \/ /\ isPollingEnabled
       /\ \E newBalances \in RenderBatches :
             /\ Len(accumulatedBalances) + Len(newBalances) <= MaxRenderAccumulated
             /\ LatestBalanceSettled(newBalances)
    \/ /\ ~data.isLoading
       /\ ~config.isLoading
       /\ LET chart == ChartData
          IN \/ \E traderId \in {"A", "B", "C"} : HandleCurveClick(chart, traderId)
             \/ BackToAll(chart)
             \/ \E mode \in {"balance", "percentage"} : SetDisplayMode(chart, mode)
             \/ \E size \in ContainerSizes : Resize(chart, size[1], size[2])

SpecRender == Init /\ [][NextRender]_vars

----------------------------------------------------------------------------
(* Vocabulary of the properties: the inputs read directly, without the      *)
(* pipeline's sorts and folds                                               *)

Last(s) == s[Len(s)]
SetMin(S) == CHOOSE x \in S : \A y \in S : x <= y
SetMax(S) == CHOOSE x \in S : \A y \in S : x >= y

RecordTimes(records) == {GetTime(records[i].timestamp) : i \in DOMAIN records}

\* The records of the trader a curve belongs to
RecordsOfCurve(curve) ==
    data.traders[CHOOSE i \in DOMAIN data.traders :
                    data.traders[i].traderId = curve.traderId].records

AllRecordTimes ==
    UNION {RecordTimes(data.traders[i].records) : i \in DOMAIN data.traders}

\* Every trader of the payload has at least one record
EachTraderHasRecords ==
    /\ ~NoTraders(data)
    /\ \A i \in DOMAIN data.traders : Len(data.traders[i].records) > 0

\* The earliest record of a list, the first of them in input order
EarliestRecord(records) ==
    records[SetMin({i \in DOMAIN records :
                      GetTime(records[i].timestamp) = SetMin(RecordTimes(records))})]

\* The latest record of a list, the last of them in input order
LatestRecord(records) ==
    records[SetMax({i \in DOMAIN records :
                      GetTime(records[i].timestamp) = SetMax(RecordTimes(records))})]

\* 1 when the curve of these records needs a leading point, else 0
LeadingPoints(records) ==
    IF SetMin(RecordTimes(records)) > SetMin(AllRecordTimes) THEN 1 ELSE 0

\* Number of points of a curve before the live merge and the trailing pad
BaseLength(curve) ==
    LeadingPoints(RecordsOfCurve(curve)) + Len(RecordsOfCurve(curve))

PointAt(curve, i) ==
    [timestamp |-> curve.timestamps[i], accountBalance |-> curve.pnlValues[i]]

\* Positions offset+1 .. offset+n of the curve hold exactly the n records
HoldsRecordsAt(curve, offset, records) ==
    /\ Len(curve.timestamps) >= offset + Len(records)
    /\ Len(curve.pnlValues) = Len(curve.timestamps)
    /\ \A i \in DOMAIN records :
          Cardinality({j \in DOMAIN records : records[j] = records[i]})
          = Cardinality({j \in DOMAIN records :
                           PointAt(curve, offset + j) = records[i]})

\* The accumulated observations of the trader of a curve
LiveOf(curve) ==
    {accumulatedBalances[i] : i \in {j \in DOMAIN accumulatedBalances :
                                      accumulatedBalances[j].traderId = curve.traderId}}

----------------------------------------------------------------------------
(* Properties of useChartData *)

\* C1: with every trader holding at least one record, every returned
\* curve's last timestamp is the instant scaleRange.maxX (globalMaxTime).
C1_LastTimestampIsGlobalMax ==
    LET chart == ChartData
    IN EachTraderHasRecords =>
          \A k \in DOMAIN chart.curves :
              GetTime(Last(chart.curves[k].timestamps)) = chart.scaleRange.maxX

\* C2: every curve starts at scaleRange.minX, the earliest record time of
\* all traders; a trader whose earliest record is later gets exactly one
\* leading point, at minX in toISOString form and with the balance of its
\* earliest record, followed by its records; a trader whose earliest record
\* is at minX gets none, its curve starts with its records.
C2_LeadingPad ==
    LET chart == ChartData
    IN \A k \in DOMAIN chart.curves :
          LET curve == chart.curves[k]
              records == RecordsOfCurve(curve)
          IN /\ chart.scaleRange.minX = SetMin(AllRecordTimes)
             /\ GetTime(curve.timestamps[1]) = chart.scaleRange.minX
             /\ IF SetMin(RecordTimes(records)) > SetMin(AllRecordTimes)
                THEN /\ curve.timestamps[1] = ToISOString(chart.scaleRange.minX)
                     /\ curve.pnlValues[1] = EarliestRecord(records).accountBalance
                     /\ HoldsRecordsAt(curve, 1, records)
                ELSE HoldsRecordsAt(curve, 0, records)

C2_Witness ==
    /\ EachTraderHasRecords
    /\ \E k \in DOMAIN ChartData.curves :
          /\ LeadingPoints(RecordsOfCurve(ChartData.curves[k])) = 1
          /\ Len(RecordsOfCurve(ChartData.curves[k])) = 2
          /\ RecordsOfCurve(ChartData.curves[k])[1].accountBalance
             /= RecordsOfCurve(ChartData.curves[k])[2].accountBalance
          /\ GetTime(RecordsOfCurve(ChartData.curves[k])[1].timestamp)
             > GetTime(RecordsOfCurve(ChartData.curves[k])[2].timestamp)

\* C3: the instants of every curve's timestamps are non-decreasing.
C3_Monotone ==
    LET chart == ChartData
    IN \A k \in DOMAIN chart.curves :
          LET ts == chart.curves[k].timestamps
          IN \A i \in 1..(Len(ts) - 1) : GetTime(ts[i]) <= GetTime(ts[i + 1])

C3_Witness ==
    \E k \in DOMAIN ChartData.curves :
        LET curve == ChartData.curves[k]
            records == RecordsOfCurve(curve)
        IN /\ Len(records) = 2
           /\ GetTime(records[1].timestamp) > GetTime(records[2].timestamp)
           /\ Len(accumulatedBalances) = 2
           /\ GetTime(accumulatedBalances[1].timestamp)
              > GetTime(accumulatedBalances[2].timestamp)
           /\ Len(curve.timestamps) = BaseLength(curve) + 2

\* C7: for a trader with accumulated observations, the points the merge
\* appended are observations of that trader, each strictly later than the
\* point before it (the last original point for the first of them).
C7_AppendedStrictlyLater ==
    LET chart == ChartData
    IN \A k \in DOMAIN chart.curves :
          LET curve == chart.curves[k]
          IN LiveOf(curve) /= {} =>
                \A i \in (BaseLength(curve) + 1)..Len(curve.timestamps) :
                    /\ \E lb \in LiveOf(curve) :
                          /\ lb.timestamp = curve.timestamps[i]
                          /\ lb.accountBalance = curve.pnlValues[i]
                    /\ GetTime(curve.timestamps[i]) > GetTime(curve.timestamps[i - 1])

\* Two observations of a trader, one not later than its last record and
\* skipped, one later and appended
C7_Witness ==
    \E k \in DOMAIN ChartData.curves :
        LET curve == ChartData.curves[k]
        IN /\ Cardinality(LiveOf(curve)) = 2
           /\ Len(curve.timestamps) = BaseLength(curve) + 1
           /\ \E lb \in LiveOf(curve) :
                 GetTime(lb.timestamp) = SetMax(RecordTimes(RecordsOfCurve(curve)))

\* C8: for a trader without accumulated observations the curve is its
\* leading part followed by exactly one point at maxX (toISOString form)
\* with the balance of its latest record when that record is earlier than
\* maxX, and by nothing otherwise; one trader with one record and no
\* observations gives one timestamp.
C8_TrailingPad ==
    LET chart == ChartData
    IN \A k \in DOMAIN chart.curves :
          LET curve == chart.curves[k]
              records == RecordsOfCurve(curve)
          IN LiveOf(curve) = {} =>
                /\ IF SetMax(RecordTimes(records)) < chart.scaleRange.maxX
                   THEN /\ Len(curve.timestamps) = BaseLength(curve) + 1
                        /\ Len(curve.pnlValues) = BaseLength(curve) + 1
                        /\ Last(curve.timestamps) = ToISOString(chart.scaleRange.maxX)
                        /\ Last(curve.pnlValues) = LatestRecord(records).accountBalance
                   ELSE /\ Len(curve.timestamps) = BaseLength(curve)
                        /\ Len(curve.pnlValues) = BaseLength(curve)
                /\ (Len(chart.curves) = 1 /\ Len(records) = 1
                    /\ accumulatedBalances = <<>>)
                   => Len(curve.timestamps) = 1

\* Scenario 1: A has a padded point at t2 with value 11000
C8_Witness ==
    /\ data = Scenario1Payload
    /\ accumulatedBalances = <<>>
    /\ ChartData.curves[1].timestamps
       = <<ToISOString(0), ToISOString(1), ToISOString(2)>>
    /\ ChartData.curves[1].pnlValues = <<10000, 11000, 11000>>
    /\ Len(ChartData.curves[2].timestamps) = 2

\* The values of the curves the range is taken over
DisplayedValues(chart, selected) ==
    UNION {{chart.curves[k].pnlValues[i] : i \in DOMAIN chart.curves[k].pnlValues} :
             k \in {j \in DOMAIN chart.curves :
                      selected = NoTrader \/ chart.curves[j].traderId = selected}}

\* C9: the Y range is symmetric around the baseline b: with min and max
\* over the displayed values and b, D = max(|max - b|, |b - min|),
\* minY = b - 1.15 D and maxY = b + 1.15 D (here in hundredths).
C9_SymmetricRange ==
    LET chart == ChartData
        b == Baseline(config)
        values == DisplayedValues(chart, selectedTraderId) \cup {b}
        D == Max2(Abs(SetMax(values) - b), Abs(b - SetMin(values)))
    IN chart.scaleRange /= NullRange =>
          /\ chart.scaleRange.minY100 = 100 * b - 115 * D
          /\ chart.scaleRange.maxY100 = 100 * b + 115 * D

\* Scenario 1 with baseline 10000: minY = 8850, maxY = 11150
C9_Witness ==
    /\ data = Scenario1Payload
    /\ accumulatedBalances = <<>>
    /\ selectedTraderId = NoTrader
    /\ Baseline(config) = 10000
    /\ ChartData.scaleRange.minY100 = 885000
    /\ ChartData.scaleRange.maxY100 = 1115000

\* Baselines and selections useChartData is also called with in C10, beside
\* those of the state
OtherBaselines == {-500, 0}
UnknownTrader == "Z"

\* C10: for the payload and the accumulated observations of the state, the
\* state's selection or one that matches no trader, the state's baseline or
\* another one, a non-null scaleRange has minY <= baseline <= maxY.
C10_BaselineContained ==
    \A selected \in {selectedTraderId, UnknownTrader} :
        \A b \in {Baseline(config)} \cup OtherBaselines :
            LET r == UseChartData(data, selected, b, accumulatedBalances).scaleRange
            IN r /= NullRange => r.minY100 <= 100 * b /\ 100 * b <= r.maxY100

\* A trader is selected whose values, live points included, all lie on one
\* side of the baseline
C10_Witness ==
    LET chart == ChartData
    IN /\ selectedTraderId /= NoTrader
       /\ accumulatedBalances /= <<>>
       /\ chart.scaleRange /= NullRange
       /\ SetMin(DisplayedValues(chart, selectedTraderId)) > Baseline(config)
       /\ chart.scaleRange.minY100 < 100 * Baseline(config)


----------------------------------------------------------------------------
(* Properties of the accumulate effect (checked under SpecAccumulate) *)

\* C4: latestBalanceData is the batch delivered last; delivering it a second
\* time and running useChartData gives the curves and the scaleRange that
\* one delivery gives.
C4_TwiceSameAsOnce ==
    LET twice == Accumulate(accumulatedBalances, lastSeenTimestamps,
                            latestBalanceData)
    IN UseChartData(data, selectedTraderId, Baseline(config),
                    twice.accumulatedBalances)
       = ChartData

\* The second delivery does add entries to the accumulated list, of a
\* trader whose curve holds live points
C4_Witness ==
    LET twice == Accumulate(accumulatedBalances, lastSeenTimestamps,
                            latestBalanceData)
        chart == ChartData
    IN /\ Len(twice.accumulatedBalances) = Len(accumulatedBalances) + 2
       /\ Len(chart.curves) = 2
       /\ latestBalanceData[1].traderId = "A"
       /\ latestBalanceData[2].traderId = "A"
       /\ Len(chart.curves[1].timestamps) = BaseLength(chart.curves[1]) + 2

\* C5: the accumulated list never holds two entries with the same traderId
\* and the same timestamp.
C5_NoDuplicateEntries ==
    \A i, j \in DOMAIN accumulatedBalances :
        (/\ i /= j
         /\ accumulatedBalances[i].traderId = accumulatedBalances[j].traderId)
        => accumulatedBalances[i].timestamp /= accumulatedBalances[j].timestamp

IsPrefix(s, t) == Len(s) <= Len(t) /\ SubSeq(t, 1, Len(s)) = s

\* The observations of the batch before position i that are of the same trader
EarlierOfTrader(batch, i) ==
    {j \in 1..(i - 1) : batch[j].traderId = batch[i].traderId}

\* The last-seen timestamp differs when batch[i] is examined: from the
\* nearest earlier observation of its trader in the batch, or else from the
\* map entry the batch found (none counts as differing)
DiffersFromLastSeen(batch, seen, i) ==
    IF EarlierOfTrader(batch, i) /= {}
    THEN batch[i].timestamp /= batch[SetMax(EarlierOfTrader(batch, i))].timestamp
    ELSE \/ batch[i].traderId \notin DOMAIN seen
         \/ batch[i].timestamp /= seen[batch[i].traderId]

KeptPositions(batch, seen) ==
    {i \in DOMAIN batch : DiffersFromLastSeen(batch, seen, i)}

\* What a poll step that delivers batch does to the accumulator
AccumulatedBy(batch, acc, seen, accAfter, seenAfter) ==
    LET kept == KeptPositions(batch, seen)
    IN /\ Len(accAfter) = Len(acc) + Cardinality(kept)
       /\ \A i \in kept :
             accAfter[Len(acc) + Cardinality({j \in kept : j <= i})] = batch[i]
       /\ DOMAIN seenAfter
          = DOMAIN seen \cup {batch[i].traderId : i \in DOMAIN batch}
       /\ \A id \in DOMAIN seenAfter :
             LET ofId == {i \in DOMAIN batch : batch[i].traderId = id}
             IN seenAfter[id] = IF ofId = {} THEN seen[id]
                                ELSE batch[SetMax(ofId)].timestamp
       /\ \A i \in DOMAIN batch :
             (/\ \A k \in DOMAIN acc :
                    ~(/\ acc[k].traderId = batch[i].traderId
                      /\ acc[k].timestamp = batch[i].timestamp)
              /\ \A j \in EarlierOfTrader(batch, i) :
                    batch[j].timestamp /= batch[i].timestamp)
             => \E k \in (Len(acc) + 1)..Len(accAfter) : accAfter[k] = batch[i]

\* C6: every step keeps the accumulated list as a prefix of the new one, and
\* a poll step appends, in batch order, exactly the observations whose
\* timestamp differs from the last-seen one of their trader when examined,
\* sets the last-seen entries to the kept timestamps, and loses no
\* observation whose timestamp was not yet seen for its trader.
C6_AppendOnly ==
    [][/\ IsPrefix(accumulatedBalances, accumulatedBalances')
       /\ LatestBalanceSettled(latestBalanceData')
          => AccumulatedBy(latestBalanceData', accumulatedBalances,
                           lastSeenTimestamps, accumulatedBalances',
                           lastSeenTimestamps')]_vars

\* A poll of two observations of one trader and one instant in its two
\* string forms has appended both after an earlier entry
C6_Witness ==
    /\ Len(latestBalanceData) = 2
    /\ Len(accumulatedBalances) = 3
    /\ latestBalanceData[1].traderId = latestBalanceData[2].traderId
    /\ GetTime(latestBalanceData[1].timestamp) = GetTime(latestBalanceData[2].timestamp)
    /\ latestBalanceData[1].timestamp /= latestBalanceData[2].timestamp
    /\ accumulatedBalances[2] = latestBalanceData[1]
    /\ accumulatedBalances[3] = latestBalanceData[2]

----------------------------------------------------------------------------
(* Properties of the display stage (checked under SpecRender) and further   *)
(* properties of useChartData                                               *)

\* The baseline of a display mode: 0 in percentage mode, the supplied
\* initial account balance in balance mode
ModeBaseline(mode, initialAccountBalance) ==
    IF mode = "percentage" THEN Num(0) ELSE initialAccountBalance

\* The chart height is positive
HasHeight == ~dimensions.isNull /\ Lt(Num(0), dimensions.chartHeight)

\* The curves TraderPnLChart displays
Displayed(chart) == DisplayedCurves(TransformedCurves(chart), selectedTraderId)

\* C11: with an initial account balance >= 0 supplied, in both display modes
\* and for every chart height >= 0, the minY and maxY that
\* calculateYAxisTicksFromCurves returns for the displayed curves enclose
\* the baseline of the mode: minY <= baseline <= maxY.
C11_BaselineInDynamicRange ==
    LET chart == ChartData
    IN (ChartDrawn(chart) /\ config.hasInitialAccountBalance) =>
          LET y == YAxis(chart)
              baseline == ModeBaseline(displayMode, Num(config.initialAccountBalance))
          IN Le(y.minY, baseline) /\ Le(baseline, y.maxY)

\* C12: for the payload, the baseline and the accumulated observations of
\* the state, every selectedTraderId gives the curves, the minX and the maxX
\* that no selection gives; with a selection, minY and maxY are the
\* symmetric range over the values of that trader's curve and the baseline.
C12_SelectionChangesOnlyY ==
    LET b == Baseline(config)
        unselected == UseChartData(data, NoTrader, b, accumulatedBalances)
    IN \A selected \in {NoTrader, "A", "B", "C", UnknownTrader} :
          LET chart == UseChartData(data, selected, b, accumulatedBalances)
              values == DisplayedValues(chart, selected) \cup {b}
              D == Max2(Abs(SetMax(values) - b), Abs(b - SetMin(values)))
          IN /\ chart.curves = unselected.curves
             /\ (chart.scaleRange = NullRange) = (unselected.scaleRange = NullRange)
             /\ chart.scaleRange /= NullRange =>
                   /\ chart.scaleRange.minX = unselected.scaleRange.minX
                   /\ chart.scaleRange.maxX = unselected.scaleRange.maxX
                   /\ selected /= NoTrader =>
                         /\ chart.scaleRange.minY100 = 100 * b - 115 * D
                         /\ chart.scaleRange.maxY100 = 100 * b + 115 * D

\* One of three curves is selected and the range is narrower than the range
\* of the three
C12_Witness ==
    LET chart == ChartData
    IN /\ Len(chart.curves) = 3
       /\ selectedTraderId /= NoTrader
       /\ chart.scaleRange.minY100
          > UseChartData(data, NoTrader, Baseline(config),
                         accumulatedBalances).scaleRange.minY100

\* C13: when every displayed value equals the baseline, the scaleRange of
\* useChartData still has minY < maxY.
C13_NonDegenerateRange ==
    LET chart == ChartData
    IN (/\ chart.scaleRange /= NullRange
        /\ DisplayedValues(chart, selectedTraderId) = {Baseline(config)})
       => chart.scaleRange.minY100 < chart.scaleRange.maxY100

\* No trader of the payload contributes a record
NoRecords(d) ==
    NoTraders(d) \/ \A i \in DOMAIN d.traders : Len(d.traders[i].records) = 0

\* C15: when the payload is missing, its traders list is empty or every
\* trader has zero records, useChartData returns {curves: [],
\* scaleRange: null}.
C15_NoDataSentinel ==
    NoRecords(data) => ChartData = [curves |-> <<>>, scaleRange |-> NullRange]

\* The values of a list of curves
NumbersOf(curves) ==
    UNION {{curves[k].pnlValues[i] : i \in DOMAIN curves[k].pnlValues} :
             k \in DOMAIN curves}

AllFinite(S) == \A x \in S : IsFinite(x)
LeastOf(S) == CHOOSE x \in S : \A y \in S : Le(x, y)
GreatestOf(S) == CHOOSE x \in S : \A y \in S : Le(y, x)
TickSet(y) == {y.ticks[i] : i \in DOMAIN y.ticks}
IntegersBetween(lo, hi) == {Num(i) : i \in lo.n..hi.n}
StrictlyAscending(s) == \A i \in 1..(Len(s) - 1) : Lt(s[i], s[i + 1])

\* One curve of one point is displayed in balance mode on a chart with a
\* height, and the point is at the baseline
SinglePointAtBaseline(chart) ==
    /\ ChartDrawn(chart)
    /\ HasHeight
    /\ displayMode = "balance"
    /\ Len(Displayed(chart)) = 1
    /\ Displayed(chart)[1].pnlValues = <<Num(Baseline(config))>>

\* The statement of C14 as claimed: for a single displayed trader with a
\* single record at the baseline (balance mode, positive chart height) the
\* Y-axis result is three ticks [v - offset, v, v + offset].
C14_DegenerateFallback ==
    LET chart == ChartData
    IN SinglePointAtBaseline(chart) =>
          LET ticks == YAxis(chart).ticks
          IN /\ Len(ticks) = 3
             /\ ticks[2] = Num(Baseline(config))
             /\ Lt(ticks[1], ticks[2])
             /\ Minus(ticks[2], ticks[1]) = Minus(ticks[3], ticks[2])

\* C14, amended: for a single displayed trader with a single record whose
\* balance equals the supplied initial account balance v, an integer >= 0
\* (balance mode, positive chart height), the Y-axis result is the
\* small-range one: minY = max(v - 2, 0), maxY = v + 2 and the ticks are
\* the integers from minY to maxY, ascending (five ticks centred on v when
\* v >= 2).
C14_SmallRangeTicks ==
    LET chart == ChartData
        v == Baseline(config)
    IN (SinglePointAtBaseline(chart) /\ config.hasInitialAccountBalance) =>
          LET y == YAxis(chart)
              lowest == Max2(v - 2, 0)
          IN /\ y.minY = Num(lowest)
             /\ y.maxY = Num(v + 2)
             /\ y.ticks = [i \in 1..(v + 2 - lowest + 1) |-> Num(lowest + i - 1)]
             /\ v >= 2 => Len(y.ticks) = 5 /\ y.ticks[3] = Num(v)

\* Scenario 2 with baseline 10000: the ticks are 9998 .. 10002
C14_Witness ==
    LET chart == ChartData
    IN /\ data = Scenario2Payload
       /\ config.hasInitialAccountBalance
       /\ SinglePointAtBaseline(chart)
       /\ YAxis(chart).ticks
          = <<Num(9998), Num(9999), Num(10000), Num(10001), Num(10002)>>

\* C16: with the initial account balance 0 and percentage mode, every value
\* of the transformed curves is finite, and so are the minY, the maxY and
\* the ticks computed from them.
C16_FiniteWithZeroBaseline ==
    LET chart == ChartData
    IN (/\ ~data.isLoading
        /\ ~config.isLoading
        /\ config.hasInitialAccountBalance
        /\ config.initialAccountBalance = 0
        /\ displayMode = "percentage")
       => /\ AllFinite(NumbersOf(TransformedCurves(chart)))
          /\ ChartDrawn(chart) =>
                /\ IsFinite(YAxis(chart).minY)
                /\ IsFinite(YAxis(chart).maxY)
                /\ AllFinite(TickSet(YAxis(chart)))

\* C17: transformCurvesByMode keeps the number, the order, the ids, the
\* timestamps and the lengths of the curves; in balance mode, whatever
\* toggles came before, the values are the aligned values; in percentage
\* mode the value v becomes ((v - b) / b) * 100, that is 100 (v - b) / b for
\* b /= 0 (v = b gives 0, 12000 with b = 10000 gives 20, shown as
\* "+20.00%") and the non-finite result of the division for b = 0.
C17_PerPointTransform ==
    LET chart == ChartData
        transformed == TransformedCurves(chart)
        b == IF config.isLoading \/ ~config.hasInitialAccountBalance THEN 10000
             ELSE config.initialAccountBalance
    IN /\ Len(transformed) = Len(chart.curves)
       /\ \A k \in DOMAIN chart.curves :
             /\ transformed[k].traderId = chart.curves[k].traderId
             /\ transformed[k].traderIndex = chart.curves[k].traderIndex
             /\ transformed[k].timestamps = chart.curves[k].timestamps
             /\ Len(transformed[k].pnlValues) = Len(chart.curves[k].pnlValues)
             /\ \A i \in DOMAIN chart.curves[k].pnlValues :
                   LET v == chart.curves[k].pnlValues[i]
                       shown == transformed[k].pnlValues[i]
                   IN IF displayMode = "balance" THEN shown = Num(v)
                      ELSE IF b = 0 THEN ~IsFinite(shown)
                      ELSE /\ shown = Frac(100 * (v - b), b)
                           /\ v = b => shown = Num(0)
                           /\ (v = 12000 /\ b = 10000) =>
                                 /\ shown = Num(20)
                                 /\ FormatTooltipValue(shown, displayMode)
                                    = "+20.00%"

\* In percentage mode with baseline 10000 the curve of A shows 0 and 20
C17_Witness ==
    /\ data = GainPayload
    /\ displayMode = "percentage"
    /\ accumulatedBalances = <<>>
    /\ TransformedCurves(ChartData)[1].pnlValues = <<Num(0), Num(20)>>

\* The initial account balances the small-range claims are checked for:
\* the one of the configuration (or none), a fractional one and a negative
\* one
FractionalBalance == Frac(20001, 2)
NegativeBalance == Num(-3)
SmallRangeBalances ==
    {InitialAccountBalanceProp(config), FractionalBalance, NegativeBalance}

\* The baseline of the small-range branch
SmallRangeBaseline(mode, initialAccountBalance) ==
    IF mode = "percentage" \/ initialAccountBalance = Undefined THEN Num(0)
    ELSE initialAccountBalance

\* The data range, baseline included, is at most 5 units
RangeAtMostFive(curves, baseline) ==
    LET S == NumbersOf(curves) \cup {baseline}
    IN AllFinite(S) /\ Le(Minus(GreatestOf(S), LeastOf(S)), Num(5))

\* ceil(max deviation from the baseline, floored at 1) + 1
ExpectedHalfRange(curves, baseline) ==
    LET S == NumbersOf(curves) \cup {baseline}
        deviation == MathMax(Minus(GreatestOf(S), baseline),
                             Minus(baseline, LeastOf(S)))
    IN Plus(MathCeil(MathMax(deviation, Num(1))), Num(1))

DomainFloor(mode) == IF mode = "percentage" THEN Num(-100) ELSE Num(0)

\* The statement of C18 as claimed: with at most 2 displayed curves and a
\* data range (baseline included) of at most 5, minY = max(baseline -
\* halfRange, floor of the mode), maxY = baseline + halfRange, the ticks are
\* every integer from floor(minY) to ceil(maxY), the baseline is among the
\* ticks and there are at least 3 ticks.
C18_SmallRangeFloorCeil ==
    LET chart == ChartData
    IN ChartDrawn(chart) =>
         \A iab \in SmallRangeBalances :
            LET curves == Displayed(chart)
                baseline == SmallRangeBaseline(displayMode, iab)
            IN (Len(curves) <= 2 /\ RangeAtMostFive(curves, baseline)) =>
                  LET y == CalculateYAxisTicksFromCurves(
                               curves, dimensions.chartHeight, iab, displayMode)
                      halfRange == ExpectedHalfRange(curves, baseline)
                  IN /\ y.minY = MathMax(Minus(baseline, halfRange),
                                         DomainFloor(displayMode))
                     /\ y.maxY = Plus(baseline, halfRange)
                     /\ TickSet(y) \ {baseline}
                        = IntegersBetween(MathFloor(y.minY), MathCeil(y.maxY))
                          \ {baseline}
                     /\ baseline \in TickSet(y)
                     /\ Len(y.ticks) >= 3

\* C18, amended: with one or two displayed curves, a positive chart height,
\* a baseline >= 0 and a data range (baseline included) of at most 5,
\* minY = max(baseline - halfRange, floor of the mode), maxY = baseline +
\* halfRange with halfRange = ceil(max(deviation, 1)) + 1, and the ticks
\* are, in ascending order, every integer from ceil(minY) to floor(maxY)
\* together with the baseline; there are at least 3 of them.
C18_SmallRangeCeilFloor ==
    LET chart == ChartData
    IN (ChartDrawn(chart) /\ HasHeight) =>
         \A iab \in SmallRangeBalances :
            LET curves == Displayed(chart)
                baseline == SmallRangeBaseline(displayMode, iab)
            IN (/\ Len(curves) \in 1..2
                /\ Le(Num(0), baseline)
                /\ RangeAtMostFive(curves, baseline)) =>
                  LET y == CalculateYAxisTicksFromCurves(
                               curves, dimensions.chartHeight, iab, displayMode)
                      halfRange == ExpectedHalfRange(curves, baseline)
                  IN /\ y.minY = MathMax(Minus(baseline, halfRange),
                                         DomainFloor(displayMode))
                     /\ y.maxY = Plus(baseline, halfRange)
                     /\ TickSet(y)
                        = IntegersBetween(MathCeil(y.minY), MathFloor(y.maxY))
                          \cup {baseline}
                     /\ StrictlyAscending(y.ticks)
                     /\ Len(y.ticks) >= 3

\* One curve with the values 10000 and 10002 around the baseline 10000:
\* halfRange 3, the seven ticks 9997 .. 10003
C18_Witness ==
    LET chart == ChartData
    IN /\ ChartDrawn(chart)
       /\ HasHeight
       /\ displayMode = "balance"
       /\ config.hasInitialAccountBalance
       /\ config.initialAccountBalance = 10000
       /\ Len(Displayed(chart)) = 1
       /\ Displayed(chart)[1].pnlValues = <<Num(10000), Num(10002)>>
       /\ YAxis(chart).minY = Num(9997)
       /\ Len(YAxis(chart).ticks) = 7

\* C19: for a non-empty list of displayed curves of finite values and a
\* positive chart height, the minY of the Y axis is >= 0 in balance mode
\* and >= -100 in percentage mode, in every branch.
C19_DomainFloors ==
    LET chart == ChartData
    IN (/\ ChartDrawn(chart)
        /\ HasHeight
        /\ Len(Displayed(chart)) >= 1
        /\ AllFinite(NumbersOf(Displayed(chart))))
       => Le(DomainFloor(displayMode), YAxis(chart).minY)

\* The displayed curves take the general branch of the tick calculation
GeneralCase(curves, initialAccountBalance, mode) ==
    LET allValues == AllValues(curves, initialAccountBalance, mode)
    IN /\ Len(allValues) > 0
       /\ ~IsSmallRange(curves,
                        Minus(MathMaxOf(allValues), MathMinOf(allValues)))

\* C20: in the general case with a supplied baseline, the ticks contain
\* the baseline or a tick closer than 0.3 * step to it.
C20_BaselineSurfaced ==
    LET chart == ChartData
    IN (/\ ChartDrawn(chart)
        /\ HasHeight
        /\ config.hasInitialAccountBalance
        /\ AllFinite(NumbersOf(Displayed(chart)))
        /\ GeneralCase(Displayed(chart), InitialAccountBalanceProp(config),
                       displayMode))
       => LET y == YAxis(chart)
              baseline == ModeBaseline(displayMode,
                                       Num(config.initialAccountBalance))
              step == StepOf(y.minY, y.maxY, dimensions.chartHeight)
          IN \/ baseline \in TickSet(y)
             \/ \E tick \in TickSet(y) :
                   Lt(MathAbs(Minus(tick, baseline)), Times(step, Frac(3, 10)))

----------------------------------------------------------------------------
(* Properties of the pipeline as a whole *)

\* The record times of a list are pairwise distinct
DistinctRecordTimes(records) ==
    \A i, j \in DOMAIN records :
       i /= j => GetTime(records[i].timestamp) /= GetTime(records[j].timestamp)

\* So are those of every trader of the payload, and those of the
\* accumulated observations of every trader
DistinctTimesPerTrader ==
    /\ ~NoTraders(data) =>
          \A i \in DOMAIN data.traders : DistinctRecordTimes(data.traders[i].records)
    /\ \A i, j \in DOMAIN accumulatedBalances :
          (i /= j /\ accumulatedBalances[i].traderId = accumulatedBalances[j].traderId)
          => GetTime(accumulatedBalances[i].timestamp)
             /= GetTime(accumulatedBalances[j].timestamp)

\* C26: with distinct record times per trader, all curves returned by
\* useChartData have the same number of points, so an index into the first displayed curve is an index into the
\* timestamps and the values of every displayed curve.
C26_CommonTimestampSequence ==
    LET shown == DisplayedCurves(ChartData.curves, selectedTraderId)
    IN DistinctTimesPerTrader =>
          /\ \A k, j \in DOMAIN ChartData.curves :
                Len(ChartData.curves[k].timestamps)
                = Len(ChartData.curves[j].timestamps)
          /\ \A k \in DOMAIN shown :
                \A index \in DOMAIN shown[1].timestamps :
                   /\ index \in DOMAIN shown[k].timestamps
                   /\ index \in DOMAIN shown[k].pnlValues

\* The instants of all accumulated observations, of any trader id
ObservationTimes ==
    {GetTime(accumulatedBalances[i].timestamp) : i \in DOMAIN accumulatedBalances}

\* The trader ids that have a curve
CurveIds(chart) == {chart.curves[k].traderId : k \in DOMAIN chart.curves}

\* C27: whenever useChartData returns at least one curve, minX is the
\* earliest record time over all traders, maxX the latest time over all
\* records and all accumulated observations, and every timestamp of every
\* curve lies in [minX, maxX].
C27_TimeRange ==
    LET chart == ChartData
    IN Len(chart.curves) >= 1 =>
          /\ chart.scaleRange.minX = SetMin(AllRecordTimes)
          /\ chart.scaleRange.maxX = SetMax(AllRecordTimes \cup ObservationTimes)
          /\ chart.scaleRange.minX <= chart.scaleRange.maxX
          /\ \A k \in DOMAIN chart.curves :
                \A i \in DOMAIN chart.curves[k].timestamps :
                   GetTime(chart.curves[k].timestamps[i])
                   \in chart.scaleRange.minX..chart.scaleRange.maxX

\* An observation of a trader id without a curve is later than every
\* record and every other observation, and maxX is its instant
C27_Witness ==
    LET chart == ChartData
    IN /\ Len(chart.curves) >= 1
       /\ \E i \in DOMAIN accumulatedBalances :
             /\ accumulatedBalances[i].traderId \notin CurveIds(chart)
             /\ GetTime(accumulatedBalances[i].timestamp) > SetMax(AllRecordTimes)
             /\ \A j \in DOMAIN accumulatedBalances :
                   accumulatedBalances[j].traderId \in CurveIds(chart)
                   => GetTime(accumulatedBalances[j].timestamp)
                      < GetTime(accumulatedBalances[i].timestamp)
             /\ chart.scaleRange.maxX = GetTime(accumulatedBalances[i].timestamp)

\* The scale range of useChartData for a selection, the rest as in the state
RangeWith(selected) ==
    UseChartData(data, selected, Baseline(config), accumulatedBalances).scaleRange

\* C29: for the same payload, baseline and accumulated observations, the
\* [minY, maxY] of any selection, also one that matches no trader, is
\* contained in the [minY, maxY] of no selection.
C29_SelectionNeverWidens ==
    LET unselected == RangeWith(NoTrader)
    IN ~unselected.isNull =>
          \A selected \in {"A", "B", UnknownTrader} :
             LET range == RangeWith(selected)
             IN /\ ~range.isNull
                /\ unselected.minY100 <= range.minY100
                /\ range.minY100 <= range.maxY100
                /\ range.maxY100 <= unselected.maxY100

\* The selected trader B stays closer to the baseline than A: the range of
\* the selection is strictly inside the range of no selection
C29_Witness ==
    /\ selectedTraderId = "B"
    /\ ~ChartData.scaleRange.isNull
    /\ Len(ChartData.curves) = 2
    /\ RangeWith(NoTrader).minY100 < ChartData.scaleRange.minY100
    /\ ChartData.scaleRange.minY100 < ChartData.scaleRange.maxY100
    /\ ChartData.scaleRange.maxY100 < RangeWith(NoTrader).maxY100

\* The rearrangements of a list
PermutationsOf(s) ==
    {[i \in 1..Len(s) |-> s[p[i]]] :
        p \in {q \in [1..Len(s) -> 1..Len(s)] :
                  \A a, b \in 1..Len(s) : a /= b => q[a] /= q[b]}}

\* The payload with the records of trader i rearranged
WithRecords(d, i, records) ==
    [d EXCEPT !.traders = [d.traders EXCEPT ![i] = [@ EXCEPT !.records = records]]]

\* C28: with pairwise distinct record times per trader and pairwise
\* distinct observation times per trader, any rearrangement of a trader's
\* records and of the accumulated observations gives the same curves and
\* the same scaleRange.
C28_OrderInsensitive ==
    (DistinctTimesPerTrader /\ ~NoTraders(data)) =>
       \A i \in DOMAIN data.traders :
          \A records \in PermutationsOf(data.traders[i].records) :
             \A latestBalances \in PermutationsOf(accumulatedBalances) :
                UseChartData(WithRecords(data, i, records), selectedTraderId,
                             Baseline(config), latestBalances)
                = ChartData

\* Trader A has two records, the later one first, and two observations
\* later than both, the later one first
C28_Witness ==
    /\ DistinctTimesPerTrader
    /\ ~NoTraders(data)
    /\ Len(ChartData.curves) >= 1
    /\ Len(data.traders[1].records) = 2
    /\ GetTime(data.traders[1].records[1].timestamp)
       > GetTime(data.traders[1].records[2].timestamp)
    /\ Len(accumulatedBalances) = 2
    /\ accumulatedBalances[1].traderId = data.traders[1].traderId
    /\ accumulatedBalances[2].traderId = data.traders[1].traderId
    /\ GetTime(accumulatedBalances[1].timestamp)
       > GetTime(accumulatedBalances[2].timestamp)
    /\ GetTime(accumulatedBalances[2].timestamp)
       > GetTime(data.traders[1].records[1].timestamp)

\* C25: when the config supplies no initialAccountBalance, the baseline of
\* useChartData, the baseline of transformCurvesByMode and the balance-mode
\* baseline of calculateYAxisTicksFromCurves are equal.
C25_SameDefaultBaseline ==
    LET chart == ChartData
    IN (ChartDrawn(chart) /\ ~config.isLoading /\ ~config.hasInitialAccountBalance) =>
          /\ TransformBaseline(config) = Num(Baseline(config))
          /\ TickBaseline(InitialAccountBalanceProp(config), "balance")
             = Num(Baseline(config))

\* C30: for non-negative displayed values and a supplied baseline >= 0,
\* whatever the branch (also without curves or without height), the Y axis
\* has minY < maxY, strictly ascending ticks and every tick in [minY, maxY].
C30_WellFormedYAxis ==
    LET chart == ChartData
    IN (/\ ChartDrawn(chart)
        /\ config.hasInitialAccountBalance
        /\ config.initialAccountBalance >= 0
        /\ \A v \in NumbersOf(Displayed(chart)) : Le(Num(0), v))
       => LET y == YAxis(chart)
          IN /\ Lt(y.minY, y.maxY)
             /\ StrictlyAscending(y.ticks)
             /\ \A tick \in TickSet(y) : Le(y.minY, tick) /\ Le(tick, y.maxY)

\* The inputs the index-based X ticks are checked for besides those of the
\* state: up to MaxTickPoints data points and these chart widths
MaxTickPoints == 5
XTickWidths == {Num(0), Num(119), Num(120), Frac(4801, 10), Num(1319), Num(1320),
                Num(5000)}

\* A list of curves whose first curve has n points
CurvesOfPoints(n) ==
    <<[traderId |-> "A",
       traderIndex |-> 1,
       timestamps |-> [i \in 1..n |-> ToISOString(i - 1)],
       pnlValues |-> [i \in 1..n |-> Num(10000)]]>>

\* The statement of C21 for the result of one call
IndexBasedTicksAsStated(ticks, n, chartWidth, firstCurve) ==
    LET quotient == MathFloor(Divide(chartWidth, Num(120))).n + 1
        tickCount == IF quotient < 3 THEN 3 ELSE IF quotient > 12 THEN 12 ELSE quotient
    IN /\ Len(ticks) = tickCount
       /\ \A k \in 1..tickCount :
             /\ 2 * ticks[k].index * (tickCount - 1)
                   <= 2 * (k - 1) * (n - 1) + (tickCount - 1)
             /\ 2 * ticks[k].index * (tickCount - 1)
                   > 2 * (k - 1) * (n - 1) - (tickCount - 1)
             /\ ticks[k].index \in 0..(n - 1)
             /\ ticks[k].timestamp = firstCurve.timestamps[ticks[k].index + 1]
             /\ ticks[k].x = Times(Frac(ticks[k].index, n - 1), chartWidth)
       /\ \A k \in 1..(tickCount - 1) : ticks[k].index <= ticks[k + 1].index
       /\ ticks[1].index = 0
       /\ ticks[tickCount].index = n - 1

\* C21: for n >= 2 data points and any chart width, the index-based X
\* ticks are clamp(floor(chartWidth / 120) + 1, 3, 12) ticks with the
\* indices round(i (n - 1) / (tickCount - 1)) (halves rounded up), all in
\* [0, n - 1], non-decreasing, from 0 to n - 1, each labelled with the
\* timestamp of its index and placed at index / (n - 1) * chartWidth.
C21_IndexBasedXTicks ==
    LET chart == ChartData
    IN /\ (ChartDrawn(chart) /\ NumDataPoints(Displayed(chart)) >= 2) =>
             IndexBasedTicksAsStated(XTicksData(chart),
                                     NumDataPoints(Displayed(chart)),
                                     dimensions.chartWidth, Displayed(chart)[1])
       /\ \A n \in 2..MaxTickPoints :
             \A chartWidth \in XTickWidths :
                IndexBasedTicksAsStated(
                    CalculateIndexBasedXTicks(n, chartWidth, CurvesOfPoints(n)),
                    n, chartWidth, CurvesOfPoints(n)[1])

\* A drawn chart 1140 wide whose first curve has three points: ten ticks
\* with the indices 0 0 0 1 1 1 1 2 2 2
C21_Witness ==
    LET chart == ChartData
    IN /\ ChartDrawn(chart)
       /\ NumDataPoints(Displayed(chart)) = 3
       /\ dimensions.chartWidth = Num(1140)
       /\ [k \in 1..10 |-> XTicksData(chart)[k].index]
          = <<0, 0, 0, 1, 1, 1, 1, 2, 2, 2>>

\* The scale ranges calculateXAxisTicks is checked for, as <<minX, maxX>>,
\* besides the one of the state
XAxisRanges ==
    {<<0, 0>>, <<1, 2>>, <<0, 3>>, <<1, 9>>, <<7, 100>>, <<0, 8640>>, <<5, 100000>>}

\* The scale range of the state, when it has one
StateRanges(chart) ==
    IF chart.scaleRange.isNull THEN {}
    ELSE {<<chart.scaleRange.minX, chart.scaleRange.maxX>>}

\* The chart width of the state, when it has one
StateWidths == IF dimensions.isNull THEN {} ELSE {dimensions.chartWidth}

\* C22: for every scaleRange with minX <= maxX and every chart width, the
\* last tick of calculateXAxisTicks is the timestamp of maxX.
C22_LastTickIsMaxX ==
    \A range \in XAxisRanges \cup StateRanges(ChartData) :
       \A chartWidth \in XTickWidths \cup StateWidths :
          range[1] <= range[2] =>
             Last(CalculateXAxisTicks(range[1], range[2], chartWidth))
             = ToISOString(range[2])

\* The initial load is complete: neither query is loading and the trader
\* P&L payload has its traders
InitialLoadComplete == ~data.isLoading /\ ~config.isLoading /\ data.hasTraders

\* A latest-balance response has arrived in this step
LatestBalanceArrived ==
    \/ latestBalanceData' /= latestBalanceData
    \/ accumulatedBalances' /= accumulatedBalances
    \/ lastSeenTimestamps' /= lastSeenTimestamps

\* C23: polling starts only after the initial load: a latest-balance
\* response arrives only while polling is enabled and the initial load is
\* complete, and polling is switched on only in a step taken when the
\* initial load is complete (and never switched off).
C23_PollingAfterInitialLoad ==
    [][/\ LatestBalanceArrived => (isPollingEnabled /\ InitialLoadComplete)
       /\ isPollingEnabled' /= isPollingEnabled =>
              (InitialLoadComplete /\ ~isPollingEnabled /\ isPollingEnabled')]_vars

\* Polling is on, the config came without a balance and a polled
\* observation has been accumulated
C23_Witness ==
    /\ isPollingEnabled
    /\ InitialLoadComplete
    /\ ~config.hasInitialAccountBalance
    /\ Len(accumulatedBalances) = 1
    /\ latestBalanceData /= <<>>

====
